---- MODULE Spec2Model ----
(***************************************************************************)
(* A model of the Monopoly rules engine (monopoly/engine.py): the          *)
(* GameState aggregate, the static rule tables of monopoly/data.py and     *)
(* monopoly/cards.py, and one action per public operation of GameEngine.   *)
(*                                                                         *)
(* Every helper of the engine is an operator from a GameState record to a  *)
(* GameState record.  The record carries one extra field, err, that holds  *)
(* the exception a helper raised: once err is set, every later helper      *)
(* returns its argument unchanged, which is how a Python exception leaves  *)
(* the mutations made before the raise in place and skips the rest.        *)
(***************************************************************************)
EXTENDS Integers, Sequences, FiniteSets, TLC

VARIABLES
  state,      \* self.state, the GameState, with the exception slot err
  last_call,  \* the engine method called last and its arguments
  pre,        \* the GameState that call was made on
  calls,      \* the number of calls made
  history     \* every call made so far, with the GameState it was made on

vars == <<state, last_call, pre, calls, history>>

----------------------------------------------------------------------------
(* Bounds of the model.                                                    *)

\* Players of the modelled game (the engine accepts 2 to 4 names).
NumPlayers == 3

\* The engine is driven through at most MaxCalls calls from an initial state.
MaxCalls == 2

\* At most MaxOffers trade offers are created.
MaxOffers == 1

\* A single turn is followed through at most MaxTurnCalls calls of the
\* operations that make up a turn.
MaxTurnCalls == 5
MaxEstateCalls == 3

----------------------------------------------------------------------------
(* Static rule tables: monopoly/data.py and monopoly/cards.py.             *)

\* Python's None for an Optional[int].
None == -1

Or0(x) == IF x = None THEN 0 ELSE x

START_CASH == 1500
GO_SALARY == 200
JAIL_FINE == 50
MAX_HOUSES == 32
MAX_HOTELS == 12

\* HOUSE_SELL_VALUE = 0.5 and MORTGAGE_INTEREST_RATE = 0.1, as fractions.
HOUSE_SELL_VALUE_DEN == 2
MORTGAGE_INTEREST_RATE_DEN == 10

\* random.randint(1, 6)
DIE_FACES == 6

AWAIT_JAIL_ACTION == "await_jail_action"
AWAIT_ROLL == "await_roll"
AWAIT_BUY_DECISION == "await_buy_decision"
AWAIT_AUCTION == "await_auction"
TURN_OVER == "turn_over"

BOARD ==
  <<
    [type |-> "go", property_id |-> None, tax_amount |-> None],
    [type |-> "property", property_id |-> 1, tax_amount |-> None],
    [type |-> "community_chest", property_id |-> None, tax_amount |-> None],
    [type |-> "property", property_id |-> 3, tax_amount |-> None],
    [type |-> "tax", property_id |-> None, tax_amount |-> 200],
    [type |-> "railroad", property_id |-> 5, tax_amount |-> None],
    [type |-> "property", property_id |-> 6, tax_amount |-> None],
    [type |-> "chance", property_id |-> None, tax_amount |-> None],
    [type |-> "property", property_id |-> 8, tax_amount |-> None],
    [type |-> "property", property_id |-> 9, tax_amount |-> None],
    [type |-> "jail", property_id |-> None, tax_amount |-> None],
    [type |-> "property", property_id |-> 11, tax_amount |-> None],
    [type |-> "utility", property_id |-> 12, tax_amount |-> None],
    [type |-> "property", property_id |-> 13, tax_amount |-> None],
    [type |-> "property", property_id |-> 14, tax_amount |-> None],
    [type |-> "railroad", property_id |-> 15, tax_amount |-> None],
    [type |-> "property", property_id |-> 16, tax_amount |-> None],
    [type |-> "community_chest", property_id |-> None, tax_amount |-> None],
    [type |-> "property", property_id |-> 18, tax_amount |-> None],
    [type |-> "property", property_id |-> 19, tax_amount |-> None],
    [type |-> "free_parking", property_id |-> None, tax_amount |-> None],
    [type |-> "property", property_id |-> 21, tax_amount |-> None],
    [type |-> "chance", property_id |-> None, tax_amount |-> None],
    [type |-> "property", property_id |-> 23, tax_amount |-> None],
    [type |-> "property", property_id |-> 24, tax_amount |-> None],
    [type |-> "railroad", property_id |-> 25, tax_amount |-> None],
    [type |-> "property", property_id |-> 26, tax_amount |-> None],
    [type |-> "property", property_id |-> 27, tax_amount |-> None],
    [type |-> "utility", property_id |-> 28, tax_amount |-> None],
    [type |-> "property", property_id |-> 29, tax_amount |-> None],
    [type |-> "go_to_jail", property_id |-> None, tax_amount |-> None],
    [type |-> "property", property_id |-> 31, tax_amount |-> None],
    [type |-> "property", property_id |-> 32, tax_amount |-> None],
    [type |-> "community_chest", property_id |-> None, tax_amount |-> None],
    [type |-> "property", property_id |-> 34, tax_amount |-> None],
    [type |-> "railroad", property_id |-> 35, tax_amount |-> None],
    [type |-> "chance", property_id |-> None, tax_amount |-> None],
    [type |-> "property", property_id |-> 37, tax_amount |-> None],
    [type |-> "tax", property_id |-> None, tax_amount |-> 100],
    [type |-> "property", property_id |-> 39, tax_amount |-> None]
  >>

PROPERTY_DATA ==
    1 :> [color |-> "brown", price |-> 60, rents |-> <<2, 10, 30, 90, 160, 250>>, house_cost |-> 50, mortgage |-> 30, type |-> "property"] @@
    3 :> [color |-> "brown", price |-> 60, rents |-> <<4, 20, 60, 180, 320, 450>>, house_cost |-> 50, mortgage |-> 30, type |-> "property"] @@
    5 :> [color |-> "None", price |-> 200, rents |-> <<25, 50, 100, 200>>, house_cost |-> None, mortgage |-> 100, type |-> "railroad"] @@
    6 :> [color |-> "light_blue", price |-> 100, rents |-> <<6, 30, 90, 270, 400, 550>>, house_cost |-> 50, mortgage |-> 50, type |-> "property"] @@
    8 :> [color |-> "light_blue", price |-> 100, rents |-> <<6, 30, 90, 270, 400, 550>>, house_cost |-> 50, mortgage |-> 50, type |-> "property"] @@
    9 :> [color |-> "light_blue", price |-> 120, rents |-> <<8, 40, 100, 300, 450, 600>>, house_cost |-> 50, mortgage |-> 60, type |-> "property"] @@
    11 :> [color |-> "pink", price |-> 140, rents |-> <<10, 50, 150, 450, 625, 750>>, house_cost |-> 100, mortgage |-> 70, type |-> "property"] @@
    12 :> [color |-> "None", price |-> 150, rents |-> <<4, 10>>, house_cost |-> None, mortgage |-> 75, type |-> "utility"] @@
    13 :> [color |-> "pink", price |-> 140, rents |-> <<10, 50, 150, 450, 625, 750>>, house_cost |-> 100, mortgage |-> 70, type |-> "property"] @@
    14 :> [color |-> "pink", price |-> 160, rents |-> <<12, 60, 180, 500, 700, 900>>, house_cost |-> 100, mortgage |-> 80, type |-> "property"] @@
    15 :> [color |-> "None", price |-> 200, rents |-> <<25, 50, 100, 200>>, house_cost |-> None, mortgage |-> 100, type |-> "railroad"] @@
    16 :> [color |-> "orange", price |-> 180, rents |-> <<14, 70, 200, 550, 750, 950>>, house_cost |-> 100, mortgage |-> 90, type |-> "property"] @@
    18 :> [color |-> "orange", price |-> 180, rents |-> <<14, 70, 200, 550, 750, 950>>, house_cost |-> 100, mortgage |-> 90, type |-> "property"] @@
    19 :> [color |-> "orange", price |-> 200, rents |-> <<16, 80, 220, 600, 800, 1000>>, house_cost |-> 100, mortgage |-> 100, type |-> "property"] @@
    21 :> [color |-> "red", price |-> 220, rents |-> <<18, 90, 250, 700, 875, 1050>>, house_cost |-> 150, mortgage |-> 110, type |-> "property"] @@
    23 :> [color |-> "red", price |-> 220, rents |-> <<18, 90, 250, 700, 875, 1050>>, house_cost |-> 150, mortgage |-> 110, type |-> "property"] @@
    24 :> [color |-> "red", price |-> 240, rents |-> <<20, 100, 300, 750, 925, 1100>>, house_cost |-> 150, mortgage |-> 120, type |-> "property"] @@
    25 :> [color |-> "None", price |-> 200, rents |-> <<25, 50, 100, 200>>, house_cost |-> None, mortgage |-> 100, type |-> "railroad"] @@
    26 :> [color |-> "yellow", price |-> 260, rents |-> <<22, 110, 330, 800, 975, 1150>>, house_cost |-> 150, mortgage |-> 130, type |-> "property"] @@
    27 :> [color |-> "yellow", price |-> 260, rents |-> <<22, 110, 330, 800, 975, 1150>>, house_cost |-> 150, mortgage |-> 130, type |-> "property"] @@
    28 :> [color |-> "None", price |-> 150, rents |-> <<4, 10>>, house_cost |-> None, mortgage |-> 75, type |-> "utility"] @@
    29 :> [color |-> "yellow", price |-> 280, rents |-> <<24, 120, 360, 850, 1025, 1200>>, house_cost |-> 150, mortgage |-> 140, type |-> "property"] @@
    31 :> [color |-> "green", price |-> 300, rents |-> <<26, 130, 390, 900, 1100, 1275>>, house_cost |-> 200, mortgage |-> 150, type |-> "property"] @@
    32 :> [color |-> "green", price |-> 300, rents |-> <<26, 130, 390, 900, 1100, 1275>>, house_cost |-> 200, mortgage |-> 150, type |-> "property"] @@
    34 :> [color |-> "green", price |-> 320, rents |-> <<28, 150, 450, 1000, 1200, 1400>>, house_cost |-> 200, mortgage |-> 160, type |-> "property"] @@
    35 :> [color |-> "None", price |-> 200, rents |-> <<25, 50, 100, 200>>, house_cost |-> None, mortgage |-> 100, type |-> "railroad"] @@
    37 :> [color |-> "dark_blue", price |-> 350, rents |-> <<35, 175, 500, 1100, 1300, 1500>>, house_cost |-> 200, mortgage |-> 175, type |-> "property"] @@
    39 :> [color |-> "dark_blue", price |-> 400, rents |-> <<50, 200, 600, 1400, 1700, 2000>>, house_cost |-> 200, mortgage |-> 200, type |-> "property"]

PROPERTY_GROUPS ==
    "brown" :> <<1, 3>> @@
    "light_blue" :> <<6, 8, 9>> @@
    "pink" :> <<11, 13, 14>> @@
    "orange" :> <<16, 18, 19>> @@
    "red" :> <<21, 23, 24>> @@
    "yellow" :> <<26, 27, 29>> @@
    "green" :> <<31, 32, 34>> @@
    "dark_blue" :> <<37, 39>>

standard_chance_cards ==
  <<
    [action |-> "move", amount |-> None, destination |-> 0, per_house |-> None, per_hotel |-> None, collect_go |-> TRUE],
    [action |-> "move", amount |-> None, destination |-> 24, per_house |-> None, per_hotel |-> None, collect_go |-> TRUE],
    [action |-> "move", amount |-> None, destination |-> 11, per_house |-> None, per_hotel |-> None, collect_go |-> TRUE],
    [action |-> "move_nearest_utility", amount |-> None, destination |-> None, per_house |-> None, per_hotel |-> None, collect_go |-> TRUE],
    [action |-> "move_nearest_railroad", amount |-> None, destination |-> None, per_house |-> None, per_hotel |-> None, collect_go |-> TRUE],
    [action |-> "move_nearest_railroad", amount |-> None, destination |-> None, per_house |-> None, per_hotel |-> None, collect_go |-> TRUE],
    [action |-> "collect", amount |-> 50, destination |-> None, per_house |-> None, per_hotel |-> None, collect_go |-> TRUE],
    [action |-> "get_out_of_jail", amount |-> None, destination |-> None, per_house |-> None, per_hotel |-> None, collect_go |-> TRUE],
    [action |-> "move_back", amount |-> 3, destination |-> None, per_house |-> None, per_hotel |-> None, collect_go |-> FALSE],
    [action |-> "go_to_jail", amount |-> None, destination |-> None, per_house |-> None, per_hotel |-> None, collect_go |-> TRUE],
    [action |-> "repair", amount |-> None, destination |-> None, per_house |-> 25, per_hotel |-> 100, collect_go |-> TRUE],
    [action |-> "pay", amount |-> 15, destination |-> None, per_house |-> None, per_hotel |-> None, collect_go |-> TRUE],
    [action |-> "move", amount |-> None, destination |-> 5, per_house |-> None, per_hotel |-> None, collect_go |-> TRUE],
    [action |-> "move", amount |-> None, destination |-> 39, per_house |-> None, per_hotel |-> None, collect_go |-> TRUE],
    [action |-> "pay_each", amount |-> 50, destination |-> None, per_house |-> None, per_hotel |-> None, collect_go |-> TRUE],
    [action |-> "collect", amount |-> 150, destination |-> None, per_house |-> None, per_hotel |-> None, collect_go |-> TRUE]
  >>

standard_community_chest_cards ==
  <<
    [action |-> "move", amount |-> None, destination |-> 0, per_house |-> None, per_hotel |-> None, collect_go |-> TRUE],
    [action |-> "collect", amount |-> 200, destination |-> None, per_house |-> None, per_hotel |-> None, collect_go |-> TRUE],
    [action |-> "pay", amount |-> 50, destination |-> None, per_house |-> None, per_hotel |-> None, collect_go |-> TRUE],
    [action |-> "collect", amount |-> 50, destination |-> None, per_house |-> None, per_hotel |-> None, collect_go |-> TRUE],
    [action |-> "get_out_of_jail", amount |-> None, destination |-> None, per_house |-> None, per_hotel |-> None, collect_go |-> TRUE],
    [action |-> "go_to_jail", amount |-> None, destination |-> None, per_house |-> None, per_hotel |-> None, collect_go |-> TRUE],
    [action |-> "collect_each", amount |-> 50, destination |-> None, per_house |-> None, per_hotel |-> None, collect_go |-> TRUE],
    [action |-> "collect", amount |-> 20, destination |-> None, per_house |-> None, per_hotel |-> None, collect_go |-> TRUE],
    [action |-> "collect", amount |-> 100, destination |-> None, per_house |-> None, per_hotel |-> None, collect_go |-> TRUE],
    [action |-> "pay", amount |-> 100, destination |-> None, per_house |-> None, per_hotel |-> None, collect_go |-> TRUE],
    [action |-> "pay", amount |-> 150, destination |-> None, per_house |-> None, per_hotel |-> None, collect_go |-> TRUE],
    [action |-> "collect", amount |-> 25, destination |-> None, per_house |-> None, per_hotel |-> None, collect_go |-> TRUE],
    [action |-> "repair", amount |-> None, destination |-> None, per_house |-> 40, per_hotel |-> 115, collect_go |-> TRUE],
    [action |-> "collect", amount |-> 10, destination |-> None, per_house |-> None, per_hotel |-> None, collect_go |-> TRUE],
    [action |-> "collect", amount |-> 100, destination |-> None, per_house |-> None, per_hotel |-> None, collect_go |-> TRUE],
    [action |-> "collect", amount |-> 100, destination |-> None, per_house |-> None, per_hotel |-> None, collect_go |-> TRUE]
  >>


RAILROADS == <<5, 15, 25, 35>>
UTILITIES == <<12, 28>>

BoardLen == Len(BOARD)
PropIds == DOMAIN PROPERTY_DATA
Colors == DOMAIN PROPERTY_GROUPS
Players == 0 .. (NumPlayers - 1)
DeckNames == {"chance", "community"}

Range(seq) == {seq[i] : i \in DOMAIN seq}
Min(S) == CHOOSE m \in S : \A n \in S : m <= n
Max(S) == CHOOSE m \in S : \A n \in S : m >= n

\* card ids are positions in the standard lists of cards.py
Card(deck_name, id) ==
  IF deck_name = "chance" THEN standard_chance_cards[id]
  ELSE standard_community_chest_cards[id]

\* Python's seq[i] for a list, negative indices counted from the end.
PyIndex(seq, i) == IF i < 0 THEN seq[Len(seq) + i + 1] ELSE seq[i + 1]

\* seq.pop(idx), 1-based idx
RemoveAt(seq, idx) == SubSeq(seq, 1, idx - 1) \o SubSeq(seq, idx + 1, Len(seq))

\* int(mortgage * (1 + MORTGAGE_INTEREST_RATE)), int(mortgage * MORTGAGE_INTEREST_RATE)
\* and int(house_cost * n * HOUSE_SELL_VALUE): the float products of data.py's
\* values truncate to these integer quotients.
UnmortgageCost(property_id) ==
  (PROPERTY_DATA[property_id].mortgage * (MORTGAGE_INTEREST_RATE_DEN + 1))
    \div MORTGAGE_INTEREST_RATE_DEN
MortgageInterest(property_id) ==
  PROPERTY_DATA[property_id].mortgage \div MORTGAGE_INTEREST_RATE_DEN
HouseSaleValue(property_id, n) ==
  (Or0(PROPERTY_DATA[property_id].house_cost) * n) \div HOUSE_SELL_VALUE_DEN

----------------------------------------------------------------------------
(* The dataclasses of engine.py.                                           *)

Player(cash, position, in_jail, jail_turns, cards, bankrupt) ==
  [cash |-> cash, position |-> position, in_jail |-> in_jail,
   jail_turns |-> jail_turns, get_out_of_jail_cards |-> cards,
   bankrupt |-> bankrupt]

PropertyState(owner_id, houses, mortgaged) ==
  [owner_id |-> owner_id, houses |-> houses, mortgaged |-> mortgaged]

AuctionState(property_id, highest_bid, highest_bidder, active_bidders) ==
  [property_id |-> property_id, highest_bid |-> highest_bid,
   highest_bidder |-> highest_bidder, active_bidders |-> active_bidders]

\* turn_state.pending_auction = None
NoAuction == AuctionState(None, 0, None, {})

\* turn_state.last_roll = None
NoRoll == <<0, 0>>

\* TurnState(phase=phase): every other field at its default
TurnState(phase) ==
  [phase |-> phase, pending_property_id |-> None, pending_auction |-> NoAuction,
   last_roll |-> NoRoll, doubles_count |-> 0]

TradeOffer(offer_id, from_player, to_player, give_cash, give_properties, receive_cash, receive_properties) ==
  [offer_id |-> offer_id, from_player |-> from_player, to_player |-> to_player,
   give_cash |-> give_cash, give_properties |-> give_properties,
   receive_cash |-> receive_cash, receive_properties |-> receive_properties,
   status |-> "open"]

----------------------------------------------------------------------------
(* Exceptions.                                                             *)

NoErr == [kind |-> "none", player_id |-> None, amount_due |-> 0]

Ok(s) == s.err.kind = "none"

\* raise GameRuleError(...)
GameRuleError(s) ==
  [s EXCEPT !.err = [kind |-> "GameRuleError", player_id |-> None, amount_due |-> 0]]

\* raise GameRuleError("No active players remain."), the fatal condition
NoActivePlayers(s) ==
  [s EXCEPT !.err = [kind |-> "NoActivePlayers", player_id |-> None, amount_due |-> 0]]

\* raise InsufficientFunds(player_id, amount_due)
InsufficientFunds(s, player_id, amount_due) ==
  [s EXCEPT !.err = [kind |-> "InsufficientFunds", player_id |-> player_id,
                     amount_due |-> amount_due]]

\* self._log(message)
_log(s) == [s EXCEPT !.event_log = @ + 1]

----------------------------------------------------------------------------
(* Ledger.                                                                 *)

\* faulty variant: the debit is made without the solvency check
_pay_bank_unchecked(s, player_id, amount) ==
  IF ~Ok(s) \/ amount <= 0 THEN s
  ELSE [s EXCEPT !.players[player_id].cash = @ - amount]

_pay_bank(s, player_id, amount) ==
  IF ~Ok(s) \/ amount <= 0 THEN s
  ELSE IF s.players[player_id].cash < amount
       THEN InsufficientFunds(s, player_id, amount)
       ELSE [s EXCEPT !.players[player_id].cash = @ - amount]

_pay_player(s, from_player, to_player, amount) ==
  IF ~Ok(s) \/ amount <= 0 THEN s
  ELSE IF s.players[from_player].cash < amount
       THEN InsufficientFunds(s, from_player, amount)
       ELSE LET s1 == [s EXCEPT !.players[from_player].cash = @ - amount]
            IN [s1 EXCEPT !.players[to_player].cash = @ + amount]

_transfer_cash(s, from_player, to_player, amount) ==
  IF ~Ok(s) \/ amount <= 0 THEN s
  ELSE IF s.players[from_player].cash < amount
       THEN InsufficientFunds(s, from_player, amount)
       ELSE LET s1 == [s EXCEPT !.players[from_player].cash = @ - amount]
            IN [s1 EXCEPT !.players[to_player].cash = @ + amount]

----------------------------------------------------------------------------
(* Property registry queries.                                              *)

_require_owner(s, player_id, property_id) ==
  IF ~Ok(s) THEN s
  ELSE IF s.properties[property_id].owner_id # player_id THEN GameRuleError(s)
       ELSE s

_owns_group(s, player_id, color) ==
  IF color = "None" THEN FALSE
  ELSE \A prop_id \in Range(PROPERTY_GROUPS[color]) :
         s.properties[prop_id].owner_id = player_id

_group_has_houses(s, property_id) ==
  LET color == PROPERTY_DATA[property_id].color
  IN IF color = "None" THEN FALSE
     ELSE \E prop_id \in Range(PROPERTY_GROUPS[color]) :
            s.properties[prop_id].houses > 0

_group_has_mortgage(s, color) ==
  IF color = "None" THEN FALSE
  ELSE \E prop_id \in Range(PROPERTY_GROUPS[color]) :
         s.properties[prop_id].mortgaged

_can_build_evenly(s, property_id) ==
  LET color == PROPERTY_DATA[property_id].color
  IN IF color = "None" THEN FALSE
     ELSE s.properties[property_id].houses
            <= Min({s.properties[prop].houses : prop \in Range(PROPERTY_GROUPS[color])})

_can_sell_evenly(s, property_id) ==
  LET color == PROPERTY_DATA[property_id].color
  IN IF color = "None" THEN FALSE
     ELSE s.properties[property_id].houses
            >= Max({s.properties[prop].houses : prop \in Range(PROPERTY_GROUPS[color])})

_count_owned(s, player_id, prop_ids) ==
  Cardinality({i \in DOMAIN prop_ids :
                 /\ s.properties[prop_ids[i]].owner_id = player_id
                 /\ ~s.properties[prop_ids[i]].mortgaged})

\* min over targets of ((target - position) % len(BOARD), target)
_find_nearest(s, player_id, targets) ==
  LET position == s.players[player_id].position
      dist(t) == (t - position) % BoardLen
  IN CHOOSE t \in Range(targets) :
       \A u \in Range(targets) : dist(t) < dist(u) \/ (dist(t) = dist(u) /\ t <= u)

_count_houses_hotels(s, player_id) ==
  LET owned == {p \in PropIds : s.properties[p].owner_id = player_id}
      RECURSIVE SumHouses(_)
      SumHouses(S) ==
        IF S = {} THEN 0
        ELSE LET p == CHOOSE q \in S : TRUE
             IN (IF s.properties[p].houses = 5 THEN 0 ELSE s.properties[p].houses)
                  + SumHouses(S \ {p})
  IN <<SumHouses(owned),
       Cardinality({p \in owned : s.properties[p].houses = 5})>>

\* faulty variant: the full-group doubling is left out
_calculate_rent_undoubled(s, property_id, tenant_id) ==
  LET prop_data == PROPERTY_DATA[property_id]
      prop_state == s.properties[property_id]
      owner_id == prop_state.owner_id
  IN IF owner_id = None \/ owner_id = tenant_id THEN 0
     ELSE IF prop_data.type = "railroad"
          THEN PyIndex(prop_data.rents, _count_owned(s, owner_id, RAILROADS) - 1)
     ELSE IF prop_data.type = "utility"
          THEN LET multiplier == IF _count_owned(s, owner_id, UTILITIES) = 2 THEN 10 ELSE 4
               IN (s.turn_state.last_roll[1] + s.turn_state.last_roll[2]) * multiplier
     ELSE prop_data.rents[prop_state.houses + 1]

_calculate_rent(s, property_id, tenant_id) ==
  LET prop_data == PROPERTY_DATA[property_id]
      prop_state == s.properties[property_id]
      owner_id == prop_state.owner_id
  IN IF owner_id = None \/ owner_id = tenant_id THEN 0
     ELSE IF prop_data.type = "railroad"
          THEN PyIndex(prop_data.rents, _count_owned(s, owner_id, RAILROADS) - 1)
     ELSE IF prop_data.type = "utility"
          THEN LET multiplier == IF _count_owned(s, owner_id, UTILITIES) = 2 THEN 10 ELSE 4
               IN (s.turn_state.last_roll[1] + s.turn_state.last_roll[2]) * multiplier
     ELSE LET rent == prop_data.rents[prop_state.houses + 1]
          IN IF prop_state.houses = 0 /\ _owns_group(s, owner_id, prop_data.color)
             THEN rent * 2 ELSE rent

----------------------------------------------------------------------------
(* Movement, jail and landing resolution.                                  *)

current_player(s) == s.players[s.current_player_index]

SetPhase(s, phase) ==
  IF Ok(s) THEN [s EXCEPT !.turn_state.phase = phase] ELSE s

send_player_to_jail(s, player_id) ==
  IF ~Ok(s) THEN s
  ELSE _log([s EXCEPT !.players[player_id].position = 10,
                      !.players[player_id].in_jail = TRUE,
                      !.players[player_id].jail_turns = 0])

\* faulty variant: a move that ends exactly on GO earns no salary
_move_current_player_past_go(s, steps, collect_go) ==
  IF ~Ok(s) THEN s
  ELSE LET pid == s.current_player_index
           start == s.players[pid].position
           new_pos == (start + steps) % BoardLen
           s1 == IF collect_go /\ (start + steps) > BoardLen
                 THEN _log([s EXCEPT !.players[pid].cash = @ + GO_SALARY])
                 ELSE s
       IN [s1 EXCEPT !.players[pid].position = new_pos]

_move_current_player(s, steps, collect_go) ==
  IF ~Ok(s) THEN s
  ELSE LET pid == s.current_player_index
           start == s.players[pid].position
           new_pos == (start + steps) % BoardLen
           s1 == IF collect_go /\ (start + steps) >= BoardLen
                 THEN _log([s EXCEPT !.players[pid].cash = @ + GO_SALARY])
                 ELSE s
       IN [s1 EXCEPT !.players[pid].position = new_pos]

_move_player_to(s, player_id, destination, collect_go) ==
  IF ~Ok(s) THEN s
  ELSE LET s1 == IF collect_go /\ destination < s.players[player_id].position
                 THEN _log([s EXCEPT !.players[player_id].cash = @ + GO_SALARY])
                 ELSE s
       IN [s1 EXCEPT !.players[player_id].position = destination]

_resolve_landing_with_rent_multiplier(s, multiplier) ==
  IF ~Ok(s) THEN s
  ELSE LET pid == s.current_player_index
           space == BOARD[s.players[pid].position + 1]
           prop_state == s.properties[space.property_id]
       IN IF space.property_id = None THEN s
          ELSE IF prop_state.owner_id # None /\ prop_state.owner_id # pid
               THEN SetPhase(_pay_player(s, pid, prop_state.owner_id,
                                         _calculate_rent(s, space.property_id, pid) * multiplier),
                             TURN_OVER)
          ELSE IF prop_state.owner_id = None
               THEN [s EXCEPT !.turn_state.phase = AWAIT_BUY_DECISION,
                              !.turn_state.pending_property_id = space.property_id]
          ELSE s

_resolve_landing_with_utility_multiplier(s, multiplier) ==
  IF ~Ok(s) THEN s
  ELSE LET pid == s.current_player_index
           space == BOARD[s.players[pid].position + 1]
           prop_state == s.properties[space.property_id]
           dice_sum == s.turn_state.last_roll[1] + s.turn_state.last_roll[2]
       IN IF space.property_id = None THEN s
          ELSE IF prop_state.owner_id # None /\ prop_state.owner_id # pid
               THEN SetPhase(_pay_player(s, pid, prop_state.owner_id, dice_sum * multiplier),
                             TURN_OVER)
          ELSE IF prop_state.owner_id = None
               THEN [s EXCEPT !.turn_state.phase = AWAIT_BUY_DECISION,
                              !.turn_state.pending_property_id = space.property_id]
          ELSE s

\* for other in self.state.players: ... _pay_player(player_id, other, amount)
RECURSIVE PayEach(_, _, _, _)
PayEach(s, player_id, amount, other) ==
  IF other >= NumPlayers THEN s
  ELSE PayEach(IF other # player_id /\ ~s.players[other].bankrupt
               THEN _pay_player(s, player_id, other, amount) ELSE s,
               player_id, amount, other + 1)

\* for other in self.state.players: ... _pay_player(other, player_id, amount)
RECURSIVE CollectEach(_, _, _, _)
CollectEach(s, player_id, amount, other) ==
  IF other >= NumPlayers THEN s
  ELSE CollectEach(IF other # player_id /\ ~s.players[other].bankrupt
                   THEN _pay_player(s, other, player_id, amount) ELSE s,
                   player_id, amount, other + 1)

RECURSIVE _resolve_landing(_)
RECURSIVE _draw_card(_, _)
RECURSIVE _apply_card(_, _, _)

_resolve_landing(s) ==
  IF ~Ok(s) THEN s
  ELSE LET pid == s.current_player_index
           space == BOARD[s.players[pid].position + 1]
           prop_id == space.property_id
           prop_state == s.properties[prop_id]
       IN IF space.type \in {"property", "railroad", "utility"}
          THEN IF prop_id = None THEN s
               ELSE IF prop_state.owner_id = None
                    THEN [s EXCEPT !.turn_state.phase = AWAIT_BUY_DECISION,
                                   !.turn_state.pending_property_id = prop_id]
               ELSE SetPhase(IF prop_state.owner_id # pid /\ ~prop_state.mortgaged
                             THEN _pay_player(s, pid, prop_state.owner_id,
                                              _calculate_rent(s, prop_id, pid))
                             ELSE s,
                             TURN_OVER)
          ELSE IF space.type = "chance" THEN _draw_card(s, "chance")
          ELSE IF space.type = "community_chest" THEN _draw_card(s, "community")
          ELSE IF space.type = "tax"
               THEN SetPhase(_pay_bank(s, pid, Or0(space.tax_amount)), TURN_OVER)
          ELSE IF space.type = "go_to_jail"
               THEN SetPhase(send_player_to_jail(s, pid), TURN_OVER)
          ELSE SetPhase(s, TURN_OVER)

\* faulty variant: a card that is not kept is left out of the deck
_draw_card_discards(s, deck_name) ==
  IF ~Ok(s) THEN s
  ELSE LET deck == IF deck_name = "chance" THEN s.chance_deck ELSE s.community_deck
           pid == s.current_player_index
           id == Head(deck)
           card == Card(deck_name, id)
           popped == IF deck_name = "chance"
                     THEN _log([s EXCEPT !.chance_deck = Tail(@)])
                     ELSE _log([s EXCEPT !.community_deck = Tail(@)])
           s1 == IF card.action = "get_out_of_jail"
                 THEN _log([popped EXCEPT !.players[pid].get_out_of_jail_cards =
                                            Append(@, <<deck_name, id>>)])
                 ELSE _apply_card(popped, card, pid)
       IN IF deck = <<>>
          THEN [s EXCEPT !.err = [kind |-> "IndexError", player_id |-> None, amount_due |-> 0]]
          ELSE IF Ok(s1) /\ s1.turn_state.phase # AWAIT_BUY_DECISION
               THEN [s1 EXCEPT !.turn_state.phase = TURN_OVER]
               ELSE s1

_draw_card(s, deck_name) ==
  IF ~Ok(s) THEN s
  ELSE LET deck == IF deck_name = "chance" THEN s.chance_deck ELSE s.community_deck
           pid == s.current_player_index
           id == Head(deck)
           card == Card(deck_name, id)
           popped == IF deck_name = "chance"
                     THEN _log([s EXCEPT !.chance_deck = Tail(@)])
                     ELSE _log([s EXCEPT !.community_deck = Tail(@)])
           s1 == IF card.action = "get_out_of_jail"
                 THEN _log([popped EXCEPT !.players[pid].get_out_of_jail_cards =
                                            Append(@, <<deck_name, id>>)])
                 ELSE _apply_card(IF deck_name = "chance"
                                  THEN [popped EXCEPT !.chance_deck = Append(@, id)]
                                  ELSE [popped EXCEPT !.community_deck = Append(@, id)],
                                  card, pid)
       IN IF deck = <<>>
          THEN [s EXCEPT !.err = [kind |-> "IndexError", player_id |-> None, amount_due |-> 0]]
          ELSE IF Ok(s1) /\ s1.turn_state.phase # AWAIT_BUY_DECISION
               THEN [s1 EXCEPT !.turn_state.phase = TURN_OVER]
               ELSE s1

_apply_card(s, card, player_id) ==
  IF ~Ok(s) THEN s
  ELSE IF card.action = "move"
       THEN _resolve_landing(_move_player_to(s, player_id, Or0(card.destination), card.collect_go))
  ELSE IF card.action = "move_nearest_railroad"
       THEN _resolve_landing_with_rent_multiplier(
              _move_player_to(s, player_id, _find_nearest(s, player_id, RAILROADS), TRUE), 2)
  ELSE IF card.action = "move_nearest_utility"
       THEN _resolve_landing_with_utility_multiplier(
              _move_player_to(s, player_id, _find_nearest(s, player_id, UTILITIES), TRUE), 10)
  ELSE IF card.action = "move_back"
       THEN _resolve_landing([s EXCEPT !.players[player_id].position =
                                         (@ - Or0(card.amount)) % BoardLen])
  ELSE IF card.action = "collect"
       THEN [s EXCEPT !.players[player_id].cash = @ + Or0(card.amount)]
  ELSE IF card.action = "pay"
       THEN _pay_bank(s, player_id, Or0(card.amount))
  ELSE IF card.action = "pay_each"
       THEN PayEach(s, player_id, Or0(card.amount), 0)
  ELSE IF card.action = "collect_each"
       THEN CollectEach(s, player_id, Or0(card.amount), 0)
  ELSE IF card.action = "go_to_jail"
       THEN send_player_to_jail(s, player_id)
  ELSE IF card.action = "repair"
       THEN LET counts == _count_houses_hotels(s, player_id)
            IN _pay_bank(s, player_id,
                         Or0(card.per_house) * counts[1] + Or0(card.per_hotel) * counts[2])
  ELSE s

----------------------------------------------------------------------------
(* Turn state machine.                                                     *)

_advance_turn_index(s) ==
  IF ~Ok(s) THEN s
  ELSE LET total_players == NumPlayers
           idx == s.current_player_index
           active == {k \in 1 .. total_players :
                        ~s.players[(idx + k) % total_players].bankrupt}
       IN IF active = {}
          THEN NoActivePlayers([s EXCEPT !.current_player_index =
                                           (idx + total_players) % total_players])
          ELSE [s EXCEPT !.current_player_index = (idx + Min(active)) % total_players]

start_turn(s) ==
  LET s1 == IF current_player(s).bankrupt THEN _advance_turn_index(s) ELSE s
  IN IF ~Ok(s) THEN s
     ELSE IF ~Ok(s1) THEN s1
     ELSE _log([s1 EXCEPT !.turn_state =
                            IF current_player(s1).in_jail
                            THEN TurnState(AWAIT_JAIL_ACTION)
                            ELSE TurnState(AWAIT_ROLL)])

roll_dice(s, die1, die2) ==
  IF s.turn_state.phase # AWAIT_ROLL THEN GameRuleError(s)
  ELSE LET pid == s.current_player_index
           s1 == _log([s EXCEPT !.turn_state.last_roll = <<die1, die2>>])
           s2 == IF die1 = die2
                 THEN [s1 EXCEPT !.turn_state.doubles_count = @ + 1]
                 ELSE s1
       IN IF die1 = die2 /\ s2.turn_state.doubles_count = 3
          THEN SetPhase(send_player_to_jail(s2, pid), TURN_OVER)
          ELSE _resolve_landing(_move_current_player(s2, die1 + die2, TRUE))

\* faulty variant: the third failed attempt frees the player without the fine
attempt_jail_roll_no_fine(s, die1, die2) ==
  IF s.turn_state.phase # AWAIT_JAIL_ACTION THEN GameRuleError(s)
  ELSE LET pid == s.current_player_index
           s1 == _log(s)
       IN IF die1 = die2 \/ s1.players[pid].jail_turns + 1 >= 3
          THEN LET s2 == [s1 EXCEPT !.players[pid].in_jail = FALSE,
                                    !.players[pid].jail_turns = 0,
                                    !.turn_state = TurnState(AWAIT_ROLL)]
               IN _resolve_landing(_move_current_player(s2, die1 + die2, TRUE))
          ELSE [s1 EXCEPT !.players[pid].jail_turns = @ + 1]

attempt_jail_roll(s, die1, die2) ==
  IF s.turn_state.phase # AWAIT_JAIL_ACTION THEN GameRuleError(s)
  ELSE LET pid == s.current_player_index
           s1 == _log(s)
       IN IF die1 = die2
          THEN LET s2 == [s1 EXCEPT !.players[pid].in_jail = FALSE,
                                    !.players[pid].jail_turns = 0,
                                    !.turn_state = TurnState(AWAIT_ROLL)]
               IN _resolve_landing(_move_current_player(s2, die1 + die2, TRUE))
          ELSE LET s2 == [s1 EXCEPT !.players[pid].jail_turns = @ + 1]
               IN IF s2.players[pid].jail_turns >= 3
                  THEN LET s3 == _pay_bank(s2, pid, JAIL_FINE)
                           s4 == IF Ok(s3)
                                 THEN [s3 EXCEPT !.players[pid].in_jail = FALSE,
                                                 !.players[pid].jail_turns = 0,
                                                 !.turn_state = TurnState(AWAIT_ROLL)]
                                 ELSE s3
                       IN _resolve_landing(_move_current_player(s4, die1 + die2, TRUE))
                  ELSE s2

pay_jail_fine(s) ==
  IF s.turn_state.phase # AWAIT_JAIL_ACTION THEN GameRuleError(s)
  ELSE LET pid == s.current_player_index
           s1 == _pay_bank(s, pid, JAIL_FINE)
       IN IF ~Ok(s1) THEN s1
          ELSE [s1 EXCEPT !.players[pid].in_jail = FALSE,
                          !.players[pid].jail_turns = 0,
                          !.turn_state.phase = AWAIT_ROLL]

\* faulty variant: the first card of the hand is used whatever its deck
use_get_out_of_jail_card_any_deck(s, deck_name) ==
  LET pid == s.current_player_index
      hand == s.players[pid].get_out_of_jail_cards
  IN IF hand = <<>> THEN GameRuleError(s)
     ELSE LET id == hand[1][2]
              s1 == [s EXCEPT !.players[pid].get_out_of_jail_cards = RemoveAt(@, 1)]
              s2 == IF deck_name = "chance"
                    THEN [s1 EXCEPT !.chance_deck = Append(@, id)]
                    ELSE [s1 EXCEPT !.community_deck = Append(@, id)]
          IN _log([s2 EXCEPT !.players[pid].in_jail = FALSE,
                             !.players[pid].jail_turns = 0,
                             !.turn_state.phase = AWAIT_ROLL])

use_get_out_of_jail_card(s, deck_name) ==
  LET pid == s.current_player_index
      hand == s.players[pid].get_out_of_jail_cards
      matching == {i \in DOMAIN hand : hand[i][1] = deck_name}
  IN IF matching = {} THEN GameRuleError(s)
     ELSE LET idx == Min(matching)
              id == hand[idx][2]
              s1 == [s EXCEPT !.players[pid].get_out_of_jail_cards = RemoveAt(@, idx)]
              s2 == IF deck_name = "chance"
                    THEN [s1 EXCEPT !.chance_deck = Append(@, id)]
                    ELSE [s1 EXCEPT !.community_deck = Append(@, id)]
          IN _log([s2 EXCEPT !.players[pid].in_jail = FALSE,
                             !.players[pid].jail_turns = 0,
                             !.turn_state.phase = AWAIT_ROLL])

\* faulty variant: the deed is handed over before the price is collected
buy_property_deed_first(s) ==
  IF s.turn_state.phase # AWAIT_BUY_DECISION THEN GameRuleError(s)
  ELSE LET pid == s.current_player_index
           prop_id == s.turn_state.pending_property_id
       IN IF prop_id = None THEN GameRuleError(s)
          ELSE LET s1 == _pay_bank([s EXCEPT !.properties[prop_id].owner_id = pid],
                                   pid, PROPERTY_DATA[prop_id].price)
               IN IF ~Ok(s1) THEN s1
                  ELSE _log([s1 EXCEPT !.turn_state.pending_property_id = None,
                                       !.turn_state.phase = TURN_OVER])

buy_property(s) ==
  IF s.turn_state.phase # AWAIT_BUY_DECISION THEN GameRuleError(s)
  ELSE LET pid == s.current_player_index
           prop_id == s.turn_state.pending_property_id
           s1 == _pay_bank(s, pid, PROPERTY_DATA[prop_id].price)
       IN IF prop_id = None THEN GameRuleError(s)
          ELSE IF ~Ok(s1) THEN s1
          ELSE _log([s1 EXCEPT !.properties[prop_id].owner_id = pid,
                               !.turn_state.pending_property_id = None,
                               !.turn_state.phase = TURN_OVER])

decline_property(s) ==
  IF s.turn_state.phase # AWAIT_BUY_DECISION THEN GameRuleError(s)
  ELSE LET prop_id == s.turn_state.pending_property_id
           auction == AuctionState(prop_id, 0, None,
                                   {p \in Players : ~s.players[p].bankrupt})
       IN IF prop_id = None THEN GameRuleError(s)
          ELSE _log([s EXCEPT !.turn_state.pending_property_id = None,
                              !.turn_state.pending_auction = auction,
                              !.turn_state.phase = AWAIT_AUCTION])

\* faulty variant: the phase guard is missing
end_turn_unguarded(s) ==
  IF s.turn_state.doubles_count > 0 /\ ~current_player(s).in_jail
  THEN _log([s EXCEPT !.turn_state = TurnState(AWAIT_ROLL)])
  ELSE start_turn(_advance_turn_index(s))

\* faulty variant: doubles grant another roll even to a jailed player
end_turn_doubles_in_jail(s) ==
  IF s.turn_state.phase # TURN_OVER THEN GameRuleError(s)
  ELSE IF s.turn_state.doubles_count > 0
       THEN _log([s EXCEPT !.turn_state = TurnState(AWAIT_ROLL)])
  ELSE start_turn(_advance_turn_index(s))

end_turn(s) ==
  IF s.turn_state.phase # TURN_OVER THEN GameRuleError(s)
  ELSE IF s.turn_state.doubles_count > 0 /\ ~current_player(s).in_jail
       THEN _log([s EXCEPT !.turn_state = TurnState(AWAIT_ROLL)])
  ELSE start_turn(_advance_turn_index(s))

----------------------------------------------------------------------------
(* Auction manager.                                                        *)

\* faulty variant: the winner gets the property without paying the bid
_finalize_auction_unpaid(s) ==
  IF ~Ok(s) THEN s
  ELSE LET auction == s.turn_state.pending_auction
           s1 == IF auction.highest_bidder # None
                 THEN _log([s EXCEPT !.properties[auction.property_id].owner_id =
                                       auction.highest_bidder])
                 ELSE _log(s)
       IN [s1 EXCEPT !.turn_state.pending_auction = NoAuction,
                     !.turn_state.phase = TURN_OVER]

_finalize_auction(s) ==
  IF ~Ok(s) THEN s
  ELSE LET auction == s.turn_state.pending_auction
           s1 == IF auction.highest_bidder # None
                 THEN LET paid == _pay_bank(s, auction.highest_bidder, auction.highest_bid)
                      IN IF ~Ok(paid) THEN paid
                         ELSE _log([paid EXCEPT !.properties[auction.property_id].owner_id =
                                                  auction.highest_bidder])
                 ELSE _log(s)
       IN IF ~Ok(s1) THEN s1
          ELSE [s1 EXCEPT !.turn_state.pending_auction = NoAuction,
                          !.turn_state.phase = TURN_OVER]

\* faulty variant: a bid equal to the highest bid is accepted
place_bid_ties(s, player_id, amount) ==
  LET auction == s.turn_state.pending_auction
  IN IF s.turn_state.phase # AWAIT_AUCTION THEN GameRuleError(s)
     ELSE IF auction = NoAuction THEN GameRuleError(s)
     ELSE IF player_id \notin auction.active_bidders THEN GameRuleError(s)
     ELSE IF s.players[player_id].cash < amount
          THEN InsufficientFunds(s, player_id, amount)
     ELSE IF amount < auction.highest_bid THEN GameRuleError(s)
     ELSE _log([s EXCEPT !.turn_state.pending_auction.highest_bid = amount,
                         !.turn_state.pending_auction.highest_bidder = player_id])

place_bid(s, player_id, amount) ==
  LET auction == s.turn_state.pending_auction
  IN IF s.turn_state.phase # AWAIT_AUCTION THEN GameRuleError(s)
     ELSE IF auction = NoAuction THEN GameRuleError(s)
     ELSE IF player_id \notin auction.active_bidders THEN GameRuleError(s)
     ELSE IF s.players[player_id].cash < amount
          THEN InsufficientFunds(s, player_id, amount)
     ELSE IF amount <= auction.highest_bid THEN GameRuleError(s)
     ELSE _log([s EXCEPT !.turn_state.pending_auction.highest_bid = amount,
                         !.turn_state.pending_auction.highest_bidder = player_id])

pass_bid(s, player_id) ==
  LET auction == s.turn_state.pending_auction
  IN IF s.turn_state.phase # AWAIT_AUCTION THEN GameRuleError(s)
     ELSE IF auction = NoAuction THEN GameRuleError(s)
     ELSE LET s1 == _log([s EXCEPT !.turn_state.pending_auction.active_bidders =
                                     @ \ {player_id}])
          IN IF Cardinality(s1.turn_state.pending_auction.active_bidders) <= 1
             THEN _finalize_auction(s1)
             ELSE s1

----------------------------------------------------------------------------
(* Trade manager.                                                          *)

_handle_mortgage_transfer(s, new_owner_id, property_id) ==
  IF ~Ok(s) THEN s
  ELSE IF s.properties[property_id].mortgaged
       THEN _pay_bank(s, new_owner_id, MortgageInterest(property_id))
       ELSE s

\* for prop_id in property_ids: _require_owner; owner_id = to_player; interest
RECURSIVE _transfer_properties(_, _, _, _)
_transfer_properties(s, from_player, to_player, property_ids) ==
  IF ~Ok(s) \/ property_ids = <<>> THEN s
  ELSE LET prop_id == Head(property_ids)
           s1 == _require_owner(s, from_player, prop_id)
           s2 == IF Ok(s1)
                 THEN _handle_mortgage_transfer(
                        [s1 EXCEPT !.properties[prop_id].owner_id = to_player],
                        to_player, prop_id)
                 ELSE s1
       IN _transfer_properties(s2, from_player, to_player, Tail(property_ids))

RECURSIVE RequireOwnerAll(_, _, _)
RequireOwnerAll(s, player_id, property_ids) ==
  IF ~Ok(s) \/ property_ids = <<>> THEN s
  ELSE RequireOwnerAll(_require_owner(s, player_id, Head(property_ids)),
                       player_id, Tail(property_ids))

_validate_trade_assets(s, player_id, cash, property_ids) ==
  IF ~Ok(s) THEN s
  ELSE IF s.players[player_id].cash < cash THEN InsufficientFunds(s, player_id, cash)
  ELSE RequireOwnerAll(s, player_id, property_ids)

\* _get_offer: the offer table is keyed by 1 .. next_offer_id - 1
HasOffer(s, offer_id) == offer_id \in DOMAIN s.trade_offers

create_trade_offer(s, from_player, to_player, give_cash, give_properties, receive_cash, receive_properties) ==
  LET s1 == _validate_trade_assets(s, from_player, give_cash, give_properties)
      offer == TradeOffer(s.next_offer_id, from_player, to_player, give_cash,
                          give_properties, receive_cash, receive_properties)
  IN IF ~Ok(s1) THEN s1
     ELSE _log([s1 EXCEPT !.trade_offers = Append(@, offer),
                          !.next_offer_id = @ + 1])

cancel_trade_offer(s, offer_id, player_id) ==
  IF ~HasOffer(s, offer_id) THEN GameRuleError(s)
  ELSE IF s.trade_offers[offer_id].from_player # player_id THEN GameRuleError(s)
  ELSE _log([s EXCEPT !.trade_offers[offer_id].status = "cancelled"])

\* faulty variant: the accepter's properties are not handed over
accept_trade_offer_one_way(s, offer_id, accepting_player) ==
  IF ~HasOffer(s, offer_id) THEN GameRuleError(s)
  ELSE LET offer == s.trade_offers[offer_id]
           s1 == _validate_trade_assets(s, offer.from_player, offer.give_cash,
                                        offer.give_properties)
           s2 == _validate_trade_assets(s1, accepting_player, offer.receive_cash,
                                        offer.receive_properties)
           s3 == _transfer_cash(s2, offer.from_player, accepting_player, offer.give_cash)
           s4 == _transfer_cash(s3, accepting_player, offer.from_player, offer.receive_cash)
           s5 == _transfer_properties(s4, offer.from_player, accepting_player,
                                      offer.give_properties)
       IN IF offer.status # "open" THEN GameRuleError(s)
          ELSE IF offer.to_player # None /\ offer.to_player # accepting_player
               THEN GameRuleError(s)
          ELSE IF ~Ok(s5) THEN s5
          ELSE _log([s5 EXCEPT !.trade_offers[offer_id].status = "accepted"])

accept_trade_offer(s, offer_id, accepting_player) ==
  IF ~HasOffer(s, offer_id) THEN GameRuleError(s)
  ELSE LET offer == s.trade_offers[offer_id]
           s1 == _validate_trade_assets(s, offer.from_player, offer.give_cash,
                                        offer.give_properties)
           s2 == _validate_trade_assets(s1, accepting_player, offer.receive_cash,
                                        offer.receive_properties)
           s3 == _transfer_cash(s2, offer.from_player, accepting_player, offer.give_cash)
           s4 == _transfer_cash(s3, accepting_player, offer.from_player, offer.receive_cash)
           s5 == _transfer_properties(s4, offer.from_player, accepting_player,
                                      offer.give_properties)
           s6 == _transfer_properties(s5, accepting_player, offer.from_player,
                                      offer.receive_properties)
       IN IF offer.status # "open" THEN GameRuleError(s)
          ELSE IF offer.to_player # None /\ offer.to_player # accepting_player
               THEN GameRuleError(s)
          ELSE IF ~Ok(s6) THEN s6
          ELSE _log([s6 EXCEPT !.trade_offers[offer_id].status = "accepted"])

----------------------------------------------------------------------------
(* Property transactions.                                                  *)

mortgage_property(s, player_id, property_id) ==
  IF s.properties[property_id].owner_id # player_id THEN GameRuleError(s)
  ELSE IF s.properties[property_id].mortgaged THEN GameRuleError(s)
  ELSE IF _group_has_houses(s, property_id) THEN GameRuleError(s)
  ELSE _log([s EXCEPT !.properties[property_id].mortgaged = TRUE,
                      !.players[player_id].cash =
                        @ + PROPERTY_DATA[property_id].mortgage])

\* faulty variant: the interest is not charged
unmortgage_property_no_interest(s, player_id, property_id) ==
  IF s.properties[property_id].owner_id # player_id THEN GameRuleError(s)
  ELSE IF ~s.properties[property_id].mortgaged THEN GameRuleError(s)
  ELSE LET s1 == _pay_bank(s, player_id, PROPERTY_DATA[property_id].mortgage)
       IN IF ~Ok(s1) THEN s1
          ELSE _log([s1 EXCEPT !.properties[property_id].mortgaged = FALSE])

unmortgage_property(s, player_id, property_id) ==
  IF s.properties[property_id].owner_id # player_id THEN GameRuleError(s)
  ELSE IF ~s.properties[property_id].mortgaged THEN GameRuleError(s)
  ELSE LET s1 == _pay_bank(s, player_id, UnmortgageCost(property_id))
       IN IF ~Ok(s1) THEN s1
          ELSE _log([s1 EXCEPT !.properties[property_id].mortgaged = FALSE])

\* faulty variant: a mortgaged sibling does not stop the build
build_house_on_mortgaged(s, player_id, property_id) ==
  LET prop_data == PROPERTY_DATA[property_id]
      prop_state == s.properties[property_id]
      s1 == _pay_bank(s, player_id, Or0(prop_data.house_cost))
  IN IF prop_state.owner_id # player_id THEN GameRuleError(s)
     ELSE IF prop_data.type # "property" THEN GameRuleError(s)
     ELSE IF ~_owns_group(s, player_id, prop_data.color) THEN GameRuleError(s)
     ELSE IF prop_state.houses >= 5 THEN GameRuleError(s)
     ELSE IF ~_can_build_evenly(s, property_id) THEN GameRuleError(s)
     ELSE IF prop_state.houses = 4 /\ s.hotels_available < 1 THEN GameRuleError(s)
     ELSE IF prop_state.houses # 4 /\ s.houses_available < 1 THEN GameRuleError(s)
     ELSE IF ~Ok(s1) THEN s1
     ELSE IF prop_state.houses = 4
          THEN _log([s1 EXCEPT !.hotels_available = @ - 1,
                               !.houses_available =
                                 IF MAX_HOUSES < @ + 4 THEN MAX_HOUSES ELSE @ + 4,
                               !.properties[property_id].houses = 5])
     ELSE _log([s1 EXCEPT !.houses_available = @ - 1,
                          !.properties[property_id].houses = @ + 1])

build_house(s, player_id, property_id) ==
  LET prop_data == PROPERTY_DATA[property_id]
      prop_state == s.properties[property_id]
      s1 == _pay_bank(s, player_id, Or0(prop_data.house_cost))
  IN IF prop_state.owner_id # player_id THEN GameRuleError(s)
     ELSE IF prop_data.type # "property" THEN GameRuleError(s)
     ELSE IF ~_owns_group(s, player_id, prop_data.color) THEN GameRuleError(s)
     ELSE IF _group_has_mortgage(s, prop_data.color) THEN GameRuleError(s)
     ELSE IF prop_state.houses >= 5 THEN GameRuleError(s)
     ELSE IF ~_can_build_evenly(s, property_id) THEN GameRuleError(s)
     ELSE IF prop_state.houses = 4 /\ s.hotels_available < 1 THEN GameRuleError(s)
     ELSE IF prop_state.houses # 4 /\ s.houses_available < 1 THEN GameRuleError(s)
     ELSE IF ~Ok(s1) THEN s1
     ELSE IF prop_state.houses = 4
          THEN _log([s1 EXCEPT !.hotels_available = @ - 1,
                               !.houses_available =
                                 IF MAX_HOUSES < @ + 4 THEN MAX_HOUSES ELSE @ + 4,
                               !.properties[property_id].houses = 5])
     ELSE _log([s1 EXCEPT !.houses_available = @ - 1,
                          !.properties[property_id].houses = @ + 1])

\* faulty variant: a hotel is sold without four houses in the pool
sell_house_any_pool(s, player_id, property_id) ==
  LET prop_state == s.properties[property_id]
  IN IF prop_state.owner_id # player_id THEN GameRuleError(s)
     ELSE IF prop_state.houses = 0 THEN GameRuleError(s)
     ELSE IF ~_can_sell_evenly(s, property_id) THEN GameRuleError(s)
     ELSE IF prop_state.houses = 5
          THEN _log([s EXCEPT !.properties[property_id].houses = 4,
                              !.hotels_available =
                                IF MAX_HOTELS < @ + 1 THEN MAX_HOTELS ELSE @ + 1,
                              !.houses_available = @ - 4,
                              !.players[player_id].cash =
                                @ + HouseSaleValue(property_id, 5)])
     ELSE _log([s EXCEPT !.properties[property_id].houses = @ - 1,
                         !.houses_available =
                           IF MAX_HOUSES < @ + 1 THEN MAX_HOUSES ELSE @ + 1,
                         !.players[player_id].cash = @ + HouseSaleValue(property_id, 1)])

sell_house(s, player_id, property_id) ==
  LET prop_state == s.properties[property_id]
  IN IF prop_state.owner_id # player_id THEN GameRuleError(s)
     ELSE IF prop_state.houses = 0 THEN GameRuleError(s)
     ELSE IF ~_can_sell_evenly(s, property_id) THEN GameRuleError(s)
     ELSE IF prop_state.houses = 5
          THEN IF s.houses_available < 4 THEN GameRuleError(s)
               ELSE _log([s EXCEPT !.properties[property_id].houses = 4,
                                   !.hotels_available =
                                     IF MAX_HOTELS < @ + 1 THEN MAX_HOTELS ELSE @ + 1,
                                   !.houses_available = @ - 4,
                                   !.players[player_id].cash =
                                     @ + HouseSaleValue(property_id, 5)])
     ELSE _log([s EXCEPT !.properties[property_id].houses = @ - 1,
                         !.houses_available =
                           IF MAX_HOUSES < @ + 1 THEN MAX_HOUSES ELSE @ + 1,
                         !.players[player_id].cash = @ + HouseSaleValue(property_id, 1)])

----------------------------------------------------------------------------
(* Bankruptcy resolver.                                                    *)

\* self.state.properties.items(): the keys of PROPERTY_DATA in insertion order
RECURSIVE SortedSeq(_)
SortedSeq(S) ==
  IF S = {} THEN <<>> ELSE <<Min(S)>> \o SortedSeq(S \ {Min(S)})

PropertyOrder == SortedSeq(PropIds)

RECURSIVE LiquidateFrom(_, _, _)
LiquidateFrom(s, player_id, i) ==
  IF i > Len(PropertyOrder) THEN s
  ELSE LET prop_id == PropertyOrder[i]
           prop_state == s.properties[prop_id]
           s1 == IF prop_state.owner_id = player_id /\ prop_state.houses > 0
                 THEN IF prop_state.houses = 5
                      THEN [s EXCEPT
                              !.hotels_available =
                                IF MAX_HOTELS < @ + 1 THEN MAX_HOTELS ELSE @ + 1,
                              !.houses_available =
                                IF MAX_HOUSES < @ + 4 THEN MAX_HOUSES ELSE @ + 4,
                              !.players[player_id].cash =
                                @ + HouseSaleValue(prop_id, 5),
                              !.properties[prop_id].houses = 0]
                      ELSE [s EXCEPT
                              !.houses_available =
                                IF MAX_HOUSES < @ + prop_state.houses
                                THEN MAX_HOUSES ELSE @ + prop_state.houses,
                              !.players[player_id].cash =
                                @ + HouseSaleValue(prop_id, 1) * prop_state.houses,
                              !.properties[prop_id].houses = 0]
                 ELSE s
       IN LiquidateFrom(s1, player_id, i + 1)

_liquidate_houses(s, player_id) == LiquidateFrom(s, player_id, 1)

\* the creditor branch's loop over the properties
RECURSIVE TransferAllFrom(_, _, _, _)
TransferAllFrom(s, player_id, creditor_id, i) ==
  IF ~Ok(s) \/ i > Len(PropertyOrder) THEN s
  ELSE LET prop_id == PropertyOrder[i]
           s1 == IF s.properties[prop_id].owner_id = player_id
                 THEN _handle_mortgage_transfer(
                        [s EXCEPT !.properties[prop_id].owner_id = creditor_id],
                        creditor_id, prop_id)
                 ELSE s
       IN TransferAllFrom(s1, player_id, creditor_id, i + 1)

\* faulty variant: the properties returned to the bank keep their mortgage
declare_bankruptcy_keeps_mortgage(s, player_id, creditor_id) ==
  IF s.players[player_id].bankrupt THEN GameRuleError(s)
  ELSE LET s1 == _liquidate_houses(s, player_id)
           s2 == IF creditor_id # None
                 THEN LET a == [s1 EXCEPT !.players[creditor_id].cash =
                                            @ + s1.players[player_id].cash]
                          b == [a EXCEPT !.players[player_id].cash = 0]
                          c == TransferAllFrom(b, player_id, creditor_id, 1)
                      IN IF Ok(c) THEN _log(c) ELSE c
                 ELSE _log([s1 EXCEPT !.properties =
                              [p \in PropIds |->
                                 IF s1.properties[p].owner_id = player_id
                                 THEN [s1.properties[p] EXCEPT !.owner_id = None]
                                 ELSE s1.properties[p]]])
       IN IF ~Ok(s2) THEN s2
          ELSE [s2 EXCEPT !.players[player_id].bankrupt = TRUE,
                          !.players[player_id].in_jail = FALSE]

declare_bankruptcy(s, player_id, creditor_id) ==
  IF s.players[player_id].bankrupt THEN GameRuleError(s)
  ELSE LET s1 == _liquidate_houses(s, player_id)
           s2 == IF creditor_id # None
                 THEN LET a == [s1 EXCEPT !.players[creditor_id].cash =
                                            @ + s1.players[player_id].cash]
                          b == [a EXCEPT !.players[player_id].cash = 0]
                          c == TransferAllFrom(b, player_id, creditor_id, 1)
                      IN IF Ok(c) THEN _log(c) ELSE c
                 ELSE _log([s1 EXCEPT !.properties =
                              [p \in PropIds |->
                                 IF s1.properties[p].owner_id = player_id
                                 THEN PropertyState(None, 0, FALSE)
                                 ELSE s1.properties[p]]])
       IN IF ~Ok(s2) THEN s2
          ELSE [s2 EXCEPT !.players[player_id].bankrupt = TRUE,
                          !.players[player_id].in_jail = FALSE]

----------------------------------------------------------------------------
(* The engine calls.  Each action is one call of a public method on the    *)
(* current GameState: state' is the GameState the method leaves, its err   *)
(* field the exception it raised ("none" when it returned normally).       *)

\* the GameState proper, without the exception slot
Game(s) == [s EXCEPT !.err = NoErr]

\* A call that raised and changed nothing leaves the engine in the state it
\* was made on: the calls that can follow it are the calls explored from that
\* state, and are not enumerated a second time.
Explored == ~Ok(state) /\ Game(state) = pre

\* one call of an engine method, the bound-th call at the latest
Step(bound, op, args, r) ==
  /\ calls < bound
  /\ ~Explored
  /\ state' = r
  /\ last_call' = [op |-> op, args |-> args]
  /\ pre' = Game(state)
  /\ calls' = calls + 1
  /\ history' = Append(history, [op |-> op, args |-> args, pre |-> Game(state)])

Call(op, args, r) == Step(MaxCalls, op, args, r)

\* the caller's inputs
\* the two dice, up to their order: the engine uses their sum and their equality
Dice == {d \in (1 .. DIE_FACES) \X (1 .. DIE_FACES) : d[1] <= d[2]}
BidAmounts == {20, 100}
\* <<from_player, to_player, give_cash, give_properties, receive_cash,
\*   receive_properties>>
OfferInputs ==
  { <<0, 1, 0, <<3>>, 100, <<>>>>,
    <<0, None, 0, <<1>>, 0, <<>>>>,
    <<0, 2, 0, <<3, 3>>, 0, <<>>>>,
    <<1, 0, 0, <<5>>, 20, <<1>>>>,
    <<2, None, 100, <<>>, 0, <<6>>>> }
\* mortgage, unmortgage, build and sell are called on the properties of the
\* first two sides of the board
PropertyInputs == {p \in PropIds : p < 20}

StartTurn == Call("start_turn", <<>>,
         start_turn(Game(state)))

RollDice ==
  \E d \in Dice : Call("roll_dice", <<d[1], d[2]>>,
         roll_dice(Game(state), d[1], d[2]))

AttemptJailRoll ==
  \E d \in Dice :
    Call("attempt_jail_roll", <<d[1], d[2]>>,
         attempt_jail_roll(Game(state), d[1], d[2]))

PayJailFine == Call("pay_jail_fine", <<>>,
         pay_jail_fine(Game(state)))

UseGetOutOfJailCard ==
  \E deck_name \in DeckNames :
    Call("use_get_out_of_jail_card", <<deck_name>>,
         use_get_out_of_jail_card(Game(state), deck_name))

BuyProperty == Call("buy_property", <<>>,
         buy_property(Game(state)))

DeclineProperty == Call("decline_property", <<>>,
         decline_property(Game(state)))

PlaceBid ==
  \E player_id \in Players, amount \in BidAmounts :
    Call("place_bid", <<player_id, amount>>,
         place_bid(Game(state), player_id, amount))

PassBid ==
  \E player_id \in Players : Call("pass_bid", <<player_id>>,
         pass_bid(Game(state), player_id))

CreateTradeOffer ==
  \E o \in OfferInputs :
    /\ state.next_offer_id <= MaxOffers
    /\ Call("create_trade_offer", <<o[1], o[2], o[3], o[4], o[5], o[6]>>,
         create_trade_offer(Game(state), o[1], o[2], o[3], o[4], o[5], o[6]))

CancelTradeOffer ==
  \E offer_id \in 1 .. MaxOffers, player_id \in Players :
    Call("cancel_trade_offer", <<offer_id, player_id>>,
         cancel_trade_offer(Game(state), offer_id, player_id))

AcceptTradeOffer ==
  \E offer_id \in 1 .. MaxOffers, accepting_player \in Players :
    Call("accept_trade_offer", <<offer_id, accepting_player>>,
         accept_trade_offer(Game(state), offer_id, accepting_player))

MortgageProperty ==
  \E player_id \in Players, property_id \in PropertyInputs :
    Call("mortgage_property", <<player_id, property_id>>,
         mortgage_property(Game(state), player_id, property_id))

UnmortgageProperty ==
  \E player_id \in Players, property_id \in PropertyInputs :
    Call("unmortgage_property", <<player_id, property_id>>,
         unmortgage_property(Game(state), player_id, property_id))

BuildHouse ==
  \E player_id \in Players, property_id \in PropertyInputs :
    Call("build_house", <<player_id, property_id>>,
         build_house(Game(state), player_id, property_id))

SellHouse ==
  \E player_id \in Players, property_id \in PropertyInputs :
    Call("sell_house", <<player_id, property_id>>,
         sell_house(Game(state), player_id, property_id))

DeclareBankruptcy ==
  \E player_id \in Players :
    \E creditor_id \in (Players \ {player_id}) \cup {None} :
    Call("declare_bankruptcy", <<player_id, creditor_id>>,
         declare_bankruptcy(Game(state), player_id, creditor_id))

EndTurn == Call("end_turn", <<>>,
         end_turn(Game(state)))

Next ==
  \/ StartTurn
  \/ RollDice
  \/ AttemptJailRoll
  \/ PayJailFine
  \/ UseGetOutOfJailCard
  \/ BuyProperty
  \/ DeclineProperty
  \/ PlaceBid
  \/ PassBid
  \/ CreateTradeOffer
  \/ CancelTradeOffer
  \/ AcceptTradeOffer
  \/ MortgageProperty
  \/ UnmortgageProperty
  \/ BuildHouse
  \/ SellHouse
  \/ DeclareBankruptcy
  \/ EndTurn

\* The operations that make up one player's turn, followed for up to
\* MaxTurnCalls calls: the roll, the end of the turn, the jail card and the
\* current player's bankruptcy to the bank.
TurnRollDice ==
  \E d \in Dice :
    Step(MaxTurnCalls, "roll_dice", <<d[1], d[2]>>,
         roll_dice(Game(state), d[1], d[2]))

TurnEndTurn == Step(MaxTurnCalls, "end_turn", <<>>, end_turn(Game(state)))

TurnUseCard ==
  \E deck_name \in DeckNames :
    Step(MaxTurnCalls, "use_get_out_of_jail_card", <<deck_name>>,
         use_get_out_of_jail_card(Game(state), deck_name))

TurnBankruptcy ==
  Step(MaxTurnCalls, "declare_bankruptcy", <<state.current_player_index, None>>,
       declare_bankruptcy(Game(state), state.current_player_index, None))

TurnNext ==
  \/ TurnRollDice
  \/ TurnEndTurn
  \/ TurnUseCard
  \/ TurnBankruptcy

----------------------------------------------------------------------------
(* Initial states.                                                         *)

\* a shuffled deck: the standard list rotated by k
Rotated(k) == [i \in 1 .. 16 |-> ((i + k - 1) % 16) + 1]

\* GameEngine.__init__
NewGame(chance_rot, community_rot) ==
  [players |-> [p \in Players |-> Player(START_CASH, 0, FALSE, 0, <<>>, FALSE)],
   properties |-> [p \in PropIds |-> PropertyState(None, 0, FALSE)],
   chance_deck |-> Rotated(chance_rot),
   community_deck |-> Rotated(community_rot),
   current_player_index |-> 0,
   turn_state |-> TurnState(AWAIT_ROLL),
   trade_offers |-> <<>>,
   event_log |-> 0,
   next_offer_id |-> 1,
   houses_available |-> MAX_HOUSES,
   hotels_available |-> MAX_HOTELS,
   err |-> NoErr]

\* A game in progress.  Player 0 holds the brown group (Mediterranean
\* mortgaged); player 1 the light blue group, Reading Railroad, Pennsylvania
\* Railroad (mortgaged) and Electric Company; player 2 the orange group with a
\* house on St. James Place and on Tennessee Avenue, and Water Works.
MidGameProperties ==
  [p \in PropIds |->
     CASE p = 1 -> PropertyState(0, 0, TRUE)
       [] p = 3 -> PropertyState(0, 0, FALSE)
       [] p \in {5, 6, 8, 9, 12} -> PropertyState(1, 0, FALSE)
       [] p = 15 -> PropertyState(1, 0, TRUE)
       [] p \in {16, 18} -> PropertyState(2, 1, FALSE)
       [] p \in {19, 28} -> PropertyState(2, 0, FALSE)
       [] OTHER -> PropertyState(None, 0, FALSE)]

\* player 0 to move from `position` with cash0; player 1 holds cash1
MidGame(position, cash0, cash1, chance_rot, community_rot) ==
  [NewGame(chance_rot, community_rot) EXCEPT
     !.properties = MidGameProperties,
     !.houses_available = MAX_HOUSES - 2,
     !.players = [p \in Players |->
                    IF p = 0 THEN Player(cash0, position, FALSE, 0, <<>>, FALSE)
                    ELSE IF p = 1 THEN Player(cash1, 5, FALSE, 0, <<>>, FALSE)
                    ELSE Player(START_CASH, 24, FALSE, 0, <<>>, FALSE)]]

\* player 0 about to roll
RollStates ==
  { MidGame(0, 30, 2, 14, 6),
    MidGame(0, 1500, 2, 14, 0),
    MidGame(12, 100, 500, 2, 0),
    MidGame(20, 1500, 500, 2, 0),
    MidGame(39, 100, 500, 0, 0),
    MidGame(0, 1500, 500, 3, 0),
    MidGame(0, 1500, 500, 4, 0) }

\* player 0 in jail, after jail_turns failed attempts
InJail(cash0, jail_turns) ==
  [MidGame(10, cash0, 500, 0, 0) EXCEPT
     !.players[0].in_jail = TRUE,
     !.players[0].jail_turns = jail_turns,
     !.turn_state = TurnState(AWAIT_JAIL_ACTION)]

JailStates == { InJail(30, 0), InJail(30, 2), InJail(1500, 2) }

\* player 0 declined St. Charles Place (11); the auction is running
Auction(cash1, highest_bid, highest_bidder, active_bidders) ==
  [MidGame(11, 1500, cash1, 0, 0) EXCEPT
     !.turn_state = [TurnState(AWAIT_AUCTION) EXCEPT
                       !.last_roll = <<5, 6>>,
                       !.pending_auction =
                         AuctionState(11, highest_bid, highest_bidder, active_bidders)]]

AuctionStates ==
  { Auction(500, 0, None, Players),
    Auction(500, 100, 1, Players \ {0}),
    Auction(150, 100, 1, Players \ {0}),
    Auction(60, 100, 1, Players \ {0}) }

\* player 0 has moved to Baltic Avenue (3), which it owns; the turn is over
TurnOver(cash1) ==
  [MidGame(3, 500, cash1, 0, 0) EXCEPT
     !.turn_state = [TurnState(TURN_OVER) EXCEPT !.last_roll = <<1, 2>>]]

TradeStates == { TurnOver(2), TurnOver(500) }

RECURSIVE BankruptAll(_, _)
BankruptAll(s, S) ==
  IF S = {} THEN [s EXCEPT !.event_log = 0]
  ELSE LET p == Min(S) IN BankruptAll(declare_bankruptcy(s, p, None), S \ {p})

\* player 0 about to roll from Free Parking (20), the players in `gone`
\* bankrupt to the bank
LateGame(gone) == BankruptAll(MidGame(20, 1500, 500, 2, 0), gone)

LateStates == { LateGame(Players \ {0}), LateGame(Players) }

InitFrom(S) ==
  /\ state \in S
  /\ last_call = [op |-> "none", args |-> <<>>]
  /\ pre = state
  /\ calls = 0
  /\ history = <<>>

Init ==
  InitFrom({NewGame(0, 0)} \cup RollStates \cup LateStates \cup JailStates
             \cup AuctionStates \cup TradeStates)

Spec == Init /\ [][Next]_vars

SpecRoll == InitFrom(RollStates \cup LateStates) /\ [][Next]_vars
SpecJail == InitFrom(JailStates) /\ [][Next]_vars
SpecAuction == InitFrom(AuctionStates) /\ [][Next]_vars
SpecTrade == InitFrom(TradeStates) /\ [][Next]_vars

\* a deck from which the card `id` has been drawn and kept
Without(deck, id) == SelectSeq(deck, LAMBDA c : c # id)

\* player 0 in jail holding the Get Out of Jail Free cards of both decks,
\* the Community Chest one (5) drawn before the Chance one (8)
JailedWithCards ==
  [InJail(1500, 1) EXCEPT
     !.players[0].get_out_of_jail_cards = <<<<"community", 5>>, <<"chance", 8>>>>,
     !.chance_deck = Without(@, 8),
     !.community_deck = Without(@, 5)]

\* player 0 to roll from GO, a Get Out of Jail Free card on top of each deck
TurnStates == { MidGame(0, 1500, 2, 7, 4), JailedWithCards }

SpecTurn == InitFrom(TurnStates) /\ [][TurnNext]_vars

\* the houses standing on the properties of S (a hotel is no house)
RECURSIVE HousesInPlay(_, _)
HousesInPlay(properties, S) ==
  IF S = {} THEN 0
  ELSE LET q == Min(S)
       IN (IF properties[q].houses = 5 THEN 0 ELSE properties[q].houses)
            + HousesInPlay(properties, S \ {q})

HotelsInPlay(properties) == Cardinality({q \in PropIds : properties[q].houses = 5})

\* The game in progress at a later stage: the properties of DOMAIN built are
\* unmortgaged and carry built[q] = <<owner, houses>>; the pools hold what the
\* buildings in play leave of the 32 houses and 12 hotels.
Developed(built, cash0, cash1) ==
  LET properties ==
        [q \in PropIds |->
           IF q \in DOMAIN built
           THEN PropertyState(built[q][1], built[q][2], FALSE)
           ELSE MidGameProperties[q]]
  IN [MidGame(3, cash0, cash1, 0, 0) EXCEPT
        !.properties = properties,
        !.houses_available = MAX_HOUSES - HousesInPlay(properties, PropIds),
        !.hotels_available = MAX_HOTELS - HotelsInPlay(properties)]

\* hotels on the light blue group, four houses on each orange property
HotelsAndHouses ==
  Developed((6 :> <<1, 5>>) @@ (8 :> <<1, 5>>) @@ (9 :> <<1, 5>>) @@
            (16 :> <<2, 4>>) @@ (18 :> <<2, 4>>) @@ (19 :> <<2, 4>>),
            500, 500)

\* two houses left in the pool
FewHouses ==
  Developed((1 :> <<0, 4>>) @@ (3 :> <<0, 4>>) @@
            (6 :> <<1, 4>>) @@ (8 :> <<1, 4>>) @@ (9 :> <<1, 4>>) @@
            (11 :> <<0, 4>>) @@ (13 :> <<0, 3>>) @@ (14 :> <<0, 3>>) @@
            (16 :> <<2, 5>>) @@ (18 :> <<2, 5>>) @@ (19 :> <<2, 5>>),
            500, 40)

\* no hotel left in the pool
NoHotels ==
  Developed((1 :> <<0, 5>>) @@ (3 :> <<0, 5>>) @@
            (6 :> <<1, 5>>) @@ (8 :> <<1, 5>>) @@ (9 :> <<1, 5>>) @@
            (11 :> <<0, 5>>) @@ (13 :> <<0, 4>>) @@ (14 :> <<0, 4>>) @@
            (16 :> <<2, 5>>) @@ (18 :> <<2, 5>>) @@ (19 :> <<2, 5>>) @@
            (21 :> <<1, 5>>) @@ (23 :> <<1, 5>>) @@ (24 :> <<1, 5>>),
            500, 500)

\* no house left in the pool, the orange group undeveloped
NoHouses ==
  Developed((1 :> <<0, 4>>) @@ (3 :> <<0, 4>>) @@
            (6 :> <<1, 4>>) @@ (8 :> <<1, 4>>) @@ (9 :> <<1, 4>>) @@
            (11 :> <<0, 4>>) @@ (13 :> <<0, 4>>) @@ (14 :> <<0, 4>>) @@
            (16 :> <<2, 0>>) @@ (18 :> <<2, 0>>) @@ (19 :> <<2, 0>>),
            500, 500)

BuildStates == { HotelsAndHouses, FewHouses, NoHotels, NoHouses }

SpecBuild == InitFrom(BuildStates) /\ [][Next]_vars

----------------------------------------------------------------------------
(* Dealing in developed property: trades, building, selling, mortgaging    *)
(* and bankruptcy on a developed board, up to MaxEstateCalls calls.        *)

\* offers of developed and of mortgaged property
EstateOffers ==
  { <<2, 0, 0, <<16>>, 0, <<>>>>,
    <<1, None, 0, <<6>>, 100, <<>>>>,
    <<0, 1, 50, <<1>>, 0, <<5>>>> }

EstateCreateOffer ==
  \E o \in EstateOffers :
    /\ state.next_offer_id <= MaxOffers
    /\ Step(MaxEstateCalls, "create_trade_offer", <<o[1], o[2], o[3], o[4], o[5], o[6]>>,
            create_trade_offer(Game(state), o[1], o[2], o[3], o[4], o[5], o[6]))

EstateCancelOffer ==
  \E offer_id \in 1 .. MaxOffers, player_id \in Players :
    Step(MaxEstateCalls, "cancel_trade_offer", <<offer_id, player_id>>,
         cancel_trade_offer(Game(state), offer_id, player_id))

EstateAcceptOffer ==
  \E offer_id \in 1 .. MaxOffers, accepting_player \in Players :
    Step(MaxEstateCalls, "accept_trade_offer", <<offer_id, accepting_player>>,
         accept_trade_offer(Game(state), offer_id, accepting_player))

EstateMortgage ==
  \E player_id \in Players, property_id \in PropertyInputs :
    Step(MaxEstateCalls, "mortgage_property", <<player_id, property_id>>,
         mortgage_property(Game(state), player_id, property_id))

EstateUnmortgage ==
  \E player_id \in Players, property_id \in PropertyInputs :
    Step(MaxEstateCalls, "unmortgage_property", <<player_id, property_id>>,
         unmortgage_property(Game(state), player_id, property_id))

EstateBuild ==
  \E player_id \in Players, property_id \in PropertyInputs :
    Step(MaxEstateCalls, "build_house", <<player_id, property_id>>,
         build_house(Game(state), player_id, property_id))

EstateSell ==
  \E player_id \in Players, property_id \in PropertyInputs :
    Step(MaxEstateCalls, "sell_house", <<player_id, property_id>>,
         sell_house(Game(state), player_id, property_id))

EstateBankruptcy ==
  \E player_id \in Players :
    \E creditor_id \in (Players \ {player_id}) \cup {None} :
      Step(MaxEstateCalls, "declare_bankruptcy", <<player_id, creditor_id>>,
           declare_bankruptcy(Game(state), player_id, creditor_id))

EstateNext ==
  \/ EstateCreateOffer
  \/ EstateCancelOffer
  \/ EstateAcceptOffer
  \/ EstateMortgage
  \/ EstateUnmortgage
  \/ EstateBuild
  \/ EstateSell
  \/ EstateBankruptcy

SpecEstate == InitFrom(BuildStates) /\ [][EstateNext]_vars

----------------------------------------------------------------------------
(* Properties.  Each is stated over the last call: its name and arguments  *)
(* (last_call), the GameState it was made on (pre) and the GameState it    *)
(* left behind, with the exception it raised, if any (state).              *)

op == last_call.op
args == last_call.args

\* the player whose turn it was when the call was made
cur == pre.current_player_index

Cash(s, p) == s.players[p].cash
Owner(s, q) == s.properties[q].owner_id
Raised(kind) == state.err.kind = kind
Unchanged == Game(state) = pre

\* the cash, ownership and offer-status part of a GameState
Holdings(s) ==
  <<[p \in Players |-> s.players[p].cash],
    [q \in PropIds |-> s.properties[q].owner_id],
    [i \in DOMAIN s.trade_offers |-> s.trade_offers[i].status]>>

\* C1: in every reachable state every player's cash is non-negative; when a
\* charge exceeds the payer's cash the operation raises insufficient funds
\* for that payer and amount, and the charge is not debited (the payer still
\* holds less than the amount due).
C1_CashNeverNegative ==
  /\ \A p \in Players : Cash(state, p) >= 0
  /\ Raised("InsufficientFunds") =>
       /\ state.err.player_id \in Players
       /\ Cash(state, state.err.player_id) < state.err.amount_due

\* roll_dice refused a charge that the mover could not pay
C1_Witness ==
  /\ op = "roll_dice"
  /\ Raised("InsufficientFunds")
  /\ state.err.player_id = cur
  /\ Cash(state, cur) < state.err.amount_due
  /\ Cash(state, cur) >= 0

\* C2 (as specified): when roll_dice or attempt_jail_roll fails with
\* insufficient funds, the GameState equals the GameState before the call.
C2_FailedRollUnchanged ==
  (op \in {"roll_dice", "attempt_jail_roll"} /\ Raised("InsufficientFunds"))
    => Unchanged

\* the phase each guarded operation requires
RequiredPhase ==
  [o \in {"roll_dice", "attempt_jail_roll", "pay_jail_fine", "buy_property",
          "decline_property", "place_bid", "pass_bid", "end_turn"} |->
     CASE o = "roll_dice" -> AWAIT_ROLL
       [] o \in {"attempt_jail_roll", "pay_jail_fine"} -> AWAIT_JAIL_ACTION
       [] o \in {"buy_property", "decline_property"} -> AWAIT_BUY_DECISION
       [] o \in {"place_bid", "pass_bid"} -> AWAIT_AUCTION
       [] o = "end_turn" -> TURN_OVER]

\* C3: roll_dice, attempt_jail_roll, pay_jail_fine, buy_property,
\* decline_property, place_bid, pass_bid and end_turn, called in a phase
\* other than the one they require, raise a rule violation and leave the
\* whole GameState unchanged.
C3_WrongPhaseRejected ==
  (op \in DOMAIN RequiredPhase /\ pre.turn_state.phase # RequiredPhase[op])
    => (Raised("GameRuleError") /\ Unchanged)

\* end_turn was called before the turn was over and was rejected
C3_Witness ==
  /\ op = "end_turn"
  /\ pre.turn_state.phase = AWAIT_BUY_DECISION
  /\ Raised("GameRuleError")
  /\ Unchanged

\* C4 (as specified): accept_trade_offer is all-or-nothing: when it raises,
\* every player's cash, every property's owner and every offer's status are
\* as they were before the call.
C4_AcceptAllOrNothing ==
  (op = "accept_trade_offer" /\ ~Ok(state)) => Holdings(state) = Holdings(pre)

\* roll_dice was called in AWAIT_ROLL and was not the third double in a row,
\* so the player moved by the dice
DiceMove ==
  /\ op = "roll_dice"
  /\ pre.turn_state.phase = AWAIT_ROLL
  /\ ~(args[1] = args[2] /\ pre.turn_state.doubles_count = 2)

DiceSum == args[1] + args[2]
Start == pre.players[cur].position

\* where the dice move ends, and what it earns at GO
Landing == (Start + DiceSum) % 40
Salary == IF Start + DiceSum >= 40 THEN GO_SALARY ELSE 0

LandedProperty == BOARD[Landing + 1].property_id
Landlord == Owner(pre, LandedProperty)

\* the move ends on an unmortgaged ownable space of another player
OnRentedSpace ==
  /\ DiceMove
  /\ LandedProperty # None
  /\ Landlord \notin {None, cur}
  /\ ~pre.properties[LandedProperty].mortgaged

\* the move ends on an ownable space of the mover
OnOwnSpace == DiceMove /\ LandedProperty # None /\ Landlord = cur

\* the rent formula: railroads pay the table entry for the owner's number of
\* unmortgaged railroads; standard properties the house-rent table entry,
\* doubled without houses on a full colour group; utilities four or ten
\* times the dice
RentFormula ==
  LET data == PROPERTY_DATA[LandedProperty]
      houses == pre.properties[LandedProperty].houses
      lines == {r \in Range(RAILROADS) :
                  Owner(pre, r) = Landlord /\ ~pre.properties[r].mortgaged}
      group == Range(PROPERTY_GROUPS[data.color])
  IN IF data.type = "railroad" THEN {data.rents[Cardinality(lines)]}
     ELSE IF data.type = "utility" THEN {4 * DiceSum, 10 * DiceSum}
     ELSE IF houses = 0 /\ \A g \in group : Owner(pre, g) = Landlord
          THEN {2 * data.rents[1]}
          ELSE {data.rents[houses + 1]}

OthersCashKept(S) == \A p \in Players \ S : Cash(state, p) = Cash(pre, p)

\* C5 (as specified): a roll_dice move ending on another player's unmortgaged
\* ownable space lowers the tenant's cash and raises the owner's by exactly
\* the rent and leaves the phase TURN_OVER; ending on the mover's own space
\* changes no player's cash.
C5_RentAsClaimed ==
  /\ OnRentedSpace =>
       \E rent \in RentFormula :
         /\ Cash(state, cur) = Cash(pre, cur) - rent
         /\ Cash(state, Landlord) = Cash(pre, Landlord) + rent
         /\ state.turn_state.phase = TURN_OVER
  /\ OnOwnSpace => OthersCashKept({})

\* C5 (amended): the mover first collects the GO salary if the move wraps
\* past or onto GO.  On another player's unmortgaged ownable space: if the
\* mover then holds at least the rent, the mover pays exactly the rent to
\* the owner, nobody else's cash changes and the phase is TURN_OVER;
\* otherwise roll_dice raises insufficient funds for the mover and the rent,
\* and no rent changes hands.  On the mover's own space no cash changes but
\* the mover's salary.
C5_RentOnRoll ==
  /\ OnRentedSpace =>
       \E rent \in RentFormula :
         IF Cash(pre, cur) + Salary >= rent
         THEN /\ Ok(state)
              /\ Cash(state, cur) = Cash(pre, cur) + Salary - rent
              /\ Cash(state, Landlord) = Cash(pre, Landlord) + rent
              /\ OthersCashKept({cur, Landlord})
              /\ state.turn_state.phase = TURN_OVER
         ELSE /\ Raised("InsufficientFunds")
              /\ state.err.player_id = cur
              /\ state.err.amount_due = rent
              /\ Cash(state, cur) = Cash(pre, cur) + Salary
              /\ OthersCashKept({cur})
  /\ OnOwnSpace =>
       /\ Ok(state)
       /\ Cash(state, cur) = Cash(pre, cur) + Salary
       /\ OthersCashKept({cur})

\* the mover paid doubled rent on a full colour group without houses
C5_Witness ==
  /\ OnRentedSpace
  /\ Ok(state)
  /\ PROPERTY_DATA[LandedProperty].type = "property"
  /\ Cash(pre, cur) - Cash(state, cur) = 2 * PROPERTY_DATA[LandedProperty].rents[1]
  /\ Cash(state, Landlord) - Cash(pre, Landlord) = 2 * PROPERTY_DATA[LandedProperty].rents[1]
  /\ state.turn_state.phase = TURN_OVER

\* the players other than p are left as they were
OthersKept(s, t, p) == \A q \in Players \ {p} : t.players[q] = s.players[q]

\* a dice move of the current player by `steps`
DiceMoveCredits(s, steps, collect_go) ==
  LET pid == s.current_player_index
      from == s.players[pid].position
      t == _move_current_player(s, steps, collect_go)
  IN /\ t.players[pid].position = (from + steps) % 40
     /\ Cash(t, pid) = Cash(s, pid)
                         + (IF collect_go /\ from + steps >= 40 THEN GO_SALARY ELSE 0)
     /\ OthersKept(s, t, pid)

\* a card move of the current player to `destination`
CardMoveCredits(s, destination, collect_go) ==
  LET pid == s.current_player_index
      from == s.players[pid].position
      t == _move_player_to(s, pid, destination, collect_go)
  IN /\ t.players[pid].position = destination
     /\ Cash(t, pid) = Cash(s, pid)
                         + (IF collect_go /\ destination < from THEN GO_SALARY ELSE 0)
     /\ OthersKept(s, t, pid)

\* the dice move ends on a space that neither charges nor pays nor moves
QuietLanding ==
  /\ DiceMove
  /\ \/ BOARD[Landing + 1].type \in {"go", "jail", "free_parking"}
     \/ /\ LandedProperty # None
        /\ Landlord \in {None, cur} \/ pre.properties[LandedProperty].mortgaged

\* C6: a single movement with salary enabled credits GO_SALARY exactly once
\* if and only if it wraps past or onto position 0 (dice move of s from p:
\* p + s >= 40; card move to d from p: d < p), ends at (p + s) mod 40,
\* respectively d, and credits nothing with salary disabled; a roll of 2
\* from position 39 ends on position 1 with 200 more cash.
C6_GoSalary ==
  /\ \A steps \in 2 .. 12, collect_go \in BOOLEAN :
       DiceMoveCredits(Game(state), steps, collect_go)
  /\ \A destination \in 0 .. 39, collect_go \in BOOLEAN :
       CardMoveCredits(Game(state), destination, collect_go)
  /\ QuietLanding =>
       /\ Ok(state)
       /\ state.players[cur].position = Landing
       /\ Cash(state, cur) = Cash(pre, cur) + Salary
       /\ OthersCashKept({cur})

\* double one from Boardwalk (39): Mediterranean Avenue (1), 200 collected
C6_Witness ==
  /\ DiceMove
  /\ Start = 39
  /\ args = <<1, 1>>
  /\ state.players[cur].position = 1
  /\ Cash(state, cur) = Cash(pre, cur) + GO_SALARY

\* the auction that was running when the call was made
PreAuction == pre.turn_state.pending_auction

\* the call was the pass that resolved the running auction
AuctionResolved ==
  /\ op = "pass_bid"
  /\ pre.turn_state.phase = AWAIT_AUCTION
  /\ PreAuction # NoAuction
  /\ state.turn_state.pending_auction = NoAuction

\* C7: when an auction resolves with a highest bid b > 0 by player w, the
\* property's owner becomes w, w's cash decreases by exactly b and no other
\* player's cash changes; when it resolves with no bid placed, the property
\* stays unowned and no player's cash changes.
C7_AuctionResolution ==
  AuctionResolved =>
    /\ Ok(state)
    /\ PreAuction.highest_bid > 0 =>
         /\ PreAuction.highest_bidder \in Players
         /\ Owner(state, PreAuction.property_id) = PreAuction.highest_bidder
         /\ Cash(state, PreAuction.highest_bidder)
              = Cash(pre, PreAuction.highest_bidder) - PreAuction.highest_bid
         /\ OthersCashKept({PreAuction.highest_bidder})
    /\ PreAuction.highest_bidder = None =>
         /\ PreAuction.highest_bid = 0
         /\ Owner(pre, PreAuction.property_id) = None
         /\ Owner(state, PreAuction.property_id) = None
         /\ OthersCashKept({})

\* the last rival passed and the bidder of 100 got St. Charles Place
C7_Witness ==
  /\ AuctionResolved
  /\ PreAuction.highest_bid = 100
  /\ Owner(state, 11) = PreAuction.highest_bidder
  /\ Cash(state, PreAuction.highest_bidder)
       = Cash(pre, PreAuction.highest_bidder) - 100

PendingProperty == pre.turn_state.pending_property_id

\* C8: buy_property succeeds only in AWAIT_BUY_DECISION, where a property is
\* pending and unowned; it then lowers the current player's cash by exactly
\* the listed price, makes that player the owner, clears the pending
\* property and sets the phase TURN_OVER; with cash below the price it
\* raises insufficient funds and leaves the GameState, the phase
\* AWAIT_BUY_DECISION included, unchanged.
C8_BuyProperty ==
  op = "buy_property" =>
    IF pre.turn_state.phase # AWAIT_BUY_DECISION
    THEN ~Ok(state) /\ Unchanged
    ELSE /\ PendingProperty \in PropIds
         /\ Owner(pre, PendingProperty) = None
         /\ IF Cash(pre, cur) >= PROPERTY_DATA[PendingProperty].price
            THEN /\ Ok(state)
                 /\ Cash(state, cur)
                      = Cash(pre, cur) - PROPERTY_DATA[PendingProperty].price
                 /\ OthersCashKept({cur})
                 /\ Owner(state, PendingProperty) = cur
                 /\ \A q \in PropIds \ {PendingProperty} :
                      state.properties[q] = pre.properties[q]
                 /\ state.turn_state.pending_property_id = None
                 /\ state.turn_state.phase = TURN_OVER
            ELSE /\ Raised("InsufficientFunds")
                 /\ Unchanged
                 /\ state.turn_state.phase = AWAIT_BUY_DECISION

\* the current player bought the pending property at its listed price
C8_Witness ==
  /\ op = "buy_property"
  /\ Ok(state)
  /\ PendingProperty \in PropIds
  /\ Owner(pre, PendingProperty) = None
  /\ Owner(state, PendingProperty) = cur
  /\ Cash(state, cur) = Cash(pre, cur) - PROPERTY_DATA[PendingProperty].price
  /\ state.turn_state.phase = TURN_OVER

\* the dice move ends on the Go To Jail space (30)
OnGoToJail == DiceMove /\ BOARD[Landing + 1].type = "go_to_jail"

\* landing there jails the mover and ends the turn
JailedByLanding ==
  OnGoToJail =>
    /\ Ok(state)
    /\ state.players[cur].in_jail
    /\ state.players[cur].position = 10
    /\ state.turn_state.phase = TURN_OVER

\* end_turn was called by a player jailed during the turn that is over
EndTurnFromJail ==
  /\ op = "end_turn"
  /\ pre.turn_state.phase = TURN_OVER
  /\ pre.players[cur].in_jail

Active == {p \in Players : ~pre.players[p].bankrupt}

\* the first non-bankrupt player after cur in rotation (cur itself last)
NextActive ==
  LET k == Min({i \in 1 .. NumPlayers : (cur + i) % NumPlayers \in Active})
  IN (cur + k) % NumPlayers

\* C9 (as specified): landing on Go To Jail sets in_jail, position 10 and
\* phase TURN_OVER whatever the dice; the following end_turn passes the turn
\* to another player even if the roll was doubles.
C9_JailAsClaimed ==
  /\ JailedByLanding
  /\ EndTurnFromJail =>
       /\ Ok(state)
       /\ state.current_player_index # cur

\* C9 (amended): landing on Go To Jail sets in_jail, position 10 and phase
\* TURN_OVER whatever the dice; the following end_turn never grants the
\* doubles re-roll: it starts a fresh turn for the next non-bankrupt player
\* in rotation, who is another player whenever another player is not
\* bankrupt and the jailed player itself (in AWAIT_JAIL_ACTION) when it is
\* the only one left; with every player bankrupt it raises the rule
\* violation that no active players remain.
C9_JailEndsTurn ==
  /\ JailedByLanding
  /\ EndTurnFromJail =>
       IF Active = {} THEN Raised("NoActivePlayers")
       ELSE /\ Ok(state)
            /\ state.current_player_index = NextActive
            /\ Active \ {cur} # {} => state.current_player_index # cur
            /\ state.turn_state =
                 TurnState(IF pre.players[NextActive].in_jail
                           THEN AWAIT_JAIL_ACTION ELSE AWAIT_ROLL)

\* double five from Free Parking to Go To Jail, then end_turn: another
\* player is to roll
C9_Witness ==
  /\ EndTurnFromJail
  /\ pre.turn_state.last_roll = <<5, 5>>
  /\ pre.turn_state.doubles_count = 1
  /\ pre.players[cur].position = 10
  /\ Ok(state)
  /\ state.current_player_index # cur
  /\ state.turn_state.phase = AWAIT_ROLL

Max0(x) == IF x > 0 THEN x ELSE 0

NoDuplicates(seq) == \A i, j \in DOMAIN seq : i # j => seq[i] # seq[j]

\* mortgage-transfer interest due on the mortgaged properties of a list
RECURSIVE InterestDue(_)
InterestDue(property_ids) ==
  IF property_ids = <<>> THEN 0
  ELSE (IF pre.properties[Head(property_ids)].mortgaged
        THEN PROPERTY_DATA[Head(property_ids)].mortgage \div 10 ELSE 0)
         + InterestDue(Tail(property_ids))

AcceptCalled == op = "accept_trade_offer" /\ HasOffer(pre, args[1])
Offer == pre.trade_offers[args[1]]
Proposer == Offer.from_player
Accepter == args[2]

\* the offer is open, the accepter may accept it, and both sides hold what
\* the offer lists
Acceptable ==
  /\ AcceptCalled
  /\ Offer.status = "open"
  /\ Offer.to_player \in {None, Accepter}
  /\ Cash(pre, Proposer) >= Offer.give_cash
  /\ \A q \in Range(Offer.give_properties) : Owner(pre, q) = Proposer
  /\ Cash(pre, Accepter) >= Offer.receive_cash
  /\ \A q \in Range(Offer.receive_properties) : Owner(pre, q) = Accepter

\* no bundle lists a property twice, and each side can pay the interest on
\* the mortgaged properties it receives once the cash has changed hands
Transferable ==
  /\ NoDuplicates(Offer.give_properties)
  /\ NoDuplicates(Offer.receive_properties)
  /\ IF Proposer = Accepter
     THEN Cash(pre, Proposer) >= InterestDue(Offer.give_properties)
                                   + InterestDue(Offer.receive_properties)
     ELSE /\ Cash(pre, Accepter) + Max0(Offer.give_cash) - Max0(Offer.receive_cash)
               >= InterestDue(Offer.give_properties)
          /\ Cash(pre, Proposer) - Max0(Offer.give_cash) + Max0(Offer.receive_cash)
               >= InterestDue(Offer.receive_properties)

\* the properties have changed hands as the offer lists, no other has
BundlesExchanged ==
  \A q \in PropIds :
    /\ Owner(state, q) = IF q \in Range(Offer.receive_properties) THEN Proposer
                          ELSE IF q \in Range(Offer.give_properties) THEN Accepter
                          ELSE Owner(pre, q)
    /\ state.properties[q].houses = pre.properties[q].houses
    /\ state.properties[q].mortgaged = pre.properties[q].mortgaged

\* C10 (as specified): when an open offer is accepted by its addressee (by any
\* player if it is addressed to nobody) and both sides still hold the listed
\* cash and properties, the bundles change hands, the offer's status becomes
\* accepted and no third player's cash or property changes.
C10_AcceptAsClaimed ==
  Acceptable =>
    /\ Ok(state)
    /\ state.trade_offers[args[1]].status = "accepted"
    /\ BundlesExchanged
    /\ OthersCashKept({Proposer, Accepter})

\* C10 (amended): when, in addition, no bundle lists a property twice and
\* each side can pay the mortgage-transfer interest (a tenth of the mortgage
\* value, rounded down) on the mortgaged properties it receives, the cash
\* and the properties change hands, each side pays that interest to the
\* bank, the offer's status becomes accepted and no third player's cash or
\* property changes.
C10_AcceptedTrade ==
  (Acceptable /\ Transferable) =>
    /\ Ok(state)
    /\ state.trade_offers[args[1]].status = "accepted"
    /\ BundlesExchanged
    /\ \A p \in Players :
         Cash(state, p) =
           Cash(pre, p)
             + (IF p = Proposer
                THEN Max0(Offer.receive_cash) - Max0(Offer.give_cash)
                       - InterestDue(Offer.receive_properties)
                ELSE 0)
             + (IF p = Accepter
                THEN Max0(Offer.give_cash) - Max0(Offer.receive_cash)
                       - InterestDue(Offer.give_properties)
                ELSE 0)

\* Reading Railroad against Mediterranean Avenue (mortgaged) and 20 in cash:
\* the proposer pays the interest on the mortgage it takes over
C10_Witness ==
  /\ Acceptable
  /\ Transferable
  /\ Proposer # Accepter
  /\ Offer.give_properties = <<5>>
  /\ Offer.receive_properties = <<1>>
  /\ InterestDue(Offer.receive_properties) > 0
  /\ state.trade_offers[args[1]].status = "accepted"
  /\ Owner(state, 5) = Accepter
  /\ Owner(state, 1) = Proposer

\* the k-th of the last n calls
Recent(n, k) == history[Len(history) - n + k]

\* the call rolled the dice for a move, and rolled doubles
Rolled(h) == h.op = "roll_dice" /\ h.pre.turn_state.phase = AWAIT_ROLL
RolledDoubles(h) == Rolled(h) /\ h.args[1] = h.args[2]

\* the call ended the turn of player p, who was not in jail
EndedTurnFree(h, p) ==
  /\ h.op = "end_turn"
  /\ h.pre.turn_state.phase = TURN_OVER
  /\ h.pre.current_player_index = p
  /\ ~h.pre.players[p].in_jail

\* the last five calls were three doubles of one player, the second and the
\* third rolled right after the end_turn that followed the doubles before
ThirdDoubles ==
  /\ Len(history) >= 5
  /\ LET p == Recent(5, 1).pre.current_player_index
     IN /\ RolledDoubles(Recent(5, 1))
        /\ EndedTurnFree(Recent(5, 2), p)
        /\ RolledDoubles(Recent(5, 3))
        /\ Recent(5, 3).pre.current_player_index = p
        /\ EndedTurnFree(Recent(5, 4), p)
        /\ RolledDoubles(Recent(5, 5))
        /\ Recent(5, 5).pre.current_player_index = p

\* C11 (as specified): when the current player rolls doubles three times in
\* succession within one turn, each further roll being the one granted by
\* end_turn's doubles bonus, the third doubles puts the player in jail at
\* position 10 without moving by the dice, and the phase is TURN_OVER.
C11_ThirdDoublesJails ==
  ThirdDoubles =>
    /\ state.players[cur].in_jail
    /\ state.players[cur].position = 10
    /\ state.turn_state.phase = TURN_OVER

\* C12: in every reachable state 0 <= houses_available <= MAX_HOUSES and
\* 0 <= hotels_available <= MAX_HOTELS, and every property's house count is
\* in 0 .. 5.
C12_PoolsInRange ==
  /\ state.houses_available \in 0 .. MAX_HOUSES
  /\ state.hotels_available \in 0 .. MAX_HOTELS
  /\ \A q \in PropIds : state.properties[q].houses \in 0 .. 5

\* the last house of the pool was built
C12_Witness ==
  /\ op = "build_house"
  /\ Ok(state)
  /\ pre.houses_available = 1
  /\ state.houses_available = 0
  /\ state.properties[args[2]].houses = pre.properties[args[2]].houses + 1

\* build_house(player, site) was called on a property with four houses
\* whose colour group the player owns in full, unmortgaged, with at least
\* four houses on every member, with a hotel in the pool and the cost in hand
Builder == args[1]
Site == args[2]
SiteGroup == Range(PROPERTY_GROUPS[PROPERTY_DATA[Site].color])

HotelUpgrade ==
  /\ op = "build_house"
  /\ PROPERTY_DATA[Site].type = "property"
  /\ pre.properties[Site].houses = 4
  /\ \A g \in SiteGroup :
       /\ Owner(pre, g) = Builder
       /\ ~pre.properties[g].mortgaged
       /\ pre.properties[g].houses >= 4
  /\ pre.hotels_available >= 1
  /\ Cash(pre, Builder) >= PROPERTY_DATA[Site].house_cost

\* C13 (as specified): such a build_house succeeds: the property's count
\* becomes 5, hotels_available decreases by 1, houses_available increases
\* by 4 and the player is charged exactly the property's house cost.
C13_HotelUpgrade ==
  HotelUpgrade =>
    /\ Ok(state)
    /\ state.properties[Site].houses = 5
    /\ state.hotels_available = pre.hotels_available - 1
    /\ state.houses_available = pre.houses_available + 4
    /\ Cash(state, Builder) = Cash(pre, Builder) - PROPERTY_DATA[Site].house_cost

\* the last two calls were a successful mortgage_property(p, q) and a
\* successful unmortgage_property(p, q) by the owner p of q
Mortgaged(h) == h.op = "mortgage_property" /\ ~h.pre.properties[h.args[2]].mortgaged
MortgageRoundTrip ==
  /\ Len(history) >= 2
  /\ Mortgaged(Recent(2, 1))
  /\ op = "unmortgage_property"
  /\ args = Recent(2, 1).args
  /\ Owner(Recent(2, 1).pre, args[2]) = args[1]
  /\ pre.properties[args[2]].mortgaged
  /\ Ok(state)

\* C14: a mortgage followed by an unmortgage of the same property by its
\* owner restores the owner and the mortgaged flag; the owner is credited the
\* mortgage value, then charged the mortgage value plus a tenth truncated, so
\* the round trip costs exactly the truncated interest and nobody else's cash
\* moves.
C14_MortgageRoundTrip ==
  MortgageRoundTrip =>
    LET before == Recent(2, 1).pre
        p == args[1]
        q == args[2]
    IN /\ state.properties[q] = before.properties[q]
       /\ Cash(pre, p) = Cash(before, p) + PROPERTY_DATA[q].mortgage
       /\ Cash(state, p) = Cash(pre, p) - UnmortgageCost(q)
       /\ Cash(state, p) = Cash(before, p) - MortgageInterest(q)
       /\ \A o \in Players \ {p} : Cash(state, o) = Cash(before, o)

C14_Witness ==
  /\ MortgageRoundTrip
  /\ MortgageInterest(args[2]) > 0
  /\ Cash(state, args[1]) < Cash(Recent(2, 1).pre, args[1])

\* start_turn or end_turn has just returned normally
TurnGiven == op \in {"start_turn", "end_turn"} /\ Ok(state)

\* the player who holds the turn now
holder == state.current_player_index

\* end_turn took its doubles branch
DoublesBonus ==
  /\ op = "end_turn"
  /\ pre.turn_state.phase = TURN_OVER
  /\ pre.turn_state.doubles_count > 0
  /\ ~pre.players[cur].in_jail

\* C15 (as specified): after any successful start_turn or end_turn the
\* current player is not bankrupt, and the players list has not shrunk.
C15_CurrentNotBankrupt ==
  TurnGiven =>
    /\ ~state.players[holder].bankrupt
    /\ DOMAIN state.players = DOMAIN pre.players

\* end_turn was called in TURN_OVER
EndTurnCalled == op = "end_turn" /\ pre.turn_state.phase = TURN_OVER

\* the roll recorded in the turn state before the call was doubles
LastRollDoubles ==
  /\ pre.turn_state.last_roll # NoRoll
  /\ pre.turn_state.last_roll[1] = pre.turn_state.last_roll[2]

\* the same player is to roll again
SamePlayerRollsAgain ==
  /\ Ok(state)
  /\ holder = cur
  /\ state.turn_state.phase = AWAIT_ROLL

\* the turn went to the next non-bankrupt player with a fresh turn state
TurnPassed ==
  IF Active = {} THEN Raised("NoActivePlayers")
  ELSE /\ Ok(state)
       /\ holder = NextActive
       /\ state.turn_state =
            TurnState(IF pre.players[NextActive].in_jail
                      THEN AWAIT_JAIL_ACTION ELSE AWAIT_ROLL)

\* C16 (as specified): end_turn in TURN_OVER keeps the current player and
\* sets AWAIT_ROLL when the player's last roll was doubles and the player is
\* not in jail; otherwise the turn goes to the next non-bankrupt player in
\* list order with a fresh turn state, AWAIT_JAIL_ACTION if that player is
\* jailed and AWAIT_ROLL if not.
C16_EndTurn ==
  EndTurnCalled =>
    IF LastRollDoubles /\ ~pre.players[cur].in_jail
    THEN SamePlayerRollsAgain
    ELSE TurnPassed

\* attempt_jail_roll was called in AWAIT_JAIL_ACTION by a jailed player
JailRoll ==
  /\ op = "attempt_jail_roll"
  /\ pre.turn_state.phase = AWAIT_JAIL_ACTION
  /\ pre.players[cur].in_jail
JailDoubles == JailRoll /\ args[1] = args[2]
FailedAttempt == JailRoll /\ args[1] # args[2]
ThirdFailedAttempt == FailedAttempt /\ pre.players[cur].jail_turns >= 2

\* two states that differ at most in the length of the event log
SameGame(s, t) == [s EXCEPT !.event_log = 0] = [t EXCEPT !.event_log = 0]

\* the player left jail after paying `fine`, moved by the dice just rolled
\* with the GO salary enabled, and the landing was resolved
FreedAndMoved(fine) ==
  LET freed == [pre EXCEPT !.players[cur].in_jail = FALSE,
                           !.players[cur].jail_turns = 0,
                           !.players[cur].cash = @ - fine,
                           !.turn_state = TurnState(AWAIT_ROLL)]
      moved == _move_current_player(freed, DiceSum, TRUE)
  IN /\ moved.players[cur].position = Landing
     /\ Cash(moved, cur) = Cash(pre, cur) - fine + Salary
     /\ SameGame(state, _resolve_landing(moved))
     /\ state.players[cur].jail_turns = 0
     /\ state.players[cur].in_jail =>
          BOARD[Landing + 1].type \in {"chance", "community_chest", "go_to_jail"}

\* a failed attempt that only counts
CountedAttempt ==
  /\ Ok(state)
  /\ SameGame(state, [pre EXCEPT !.players[cur].jail_turns = @ + 1])

\* C17 (as specified): doubles free the player and move them by the dice sum
\* with the landing resolved; a non-double increments the jail-turn counter;
\* on the third failed attempt the player pays exactly JAIL_FINE, leaves jail
\* and moves by the just-rolled sum, so no player is still in jail after
\* three failed attempts.
C17_JailRollAsClaimed ==
  /\ JailDoubles => FreedAndMoved(0)
  /\ FailedAttempt /\ ~ThirdFailedAttempt => CountedAttempt
  /\ ThirdFailedAttempt => FreedAndMoved(JAIL_FINE)

\* C17 (amended): as above, but the third failed attempt frees and moves the
\* player only if the player's cash covers JAIL_FINE; otherwise the call
\* raises insufficient funds for JAIL_FINE and the player is still in jail,
\* unmoved and unpaid, with the attempt counted.
C17_JailRoll ==
  /\ JailDoubles => FreedAndMoved(0)
  /\ FailedAttempt /\ ~ThirdFailedAttempt => CountedAttempt
  /\ ThirdFailedAttempt =>
       IF Cash(pre, cur) >= JAIL_FINE THEN FreedAndMoved(JAIL_FINE)
       ELSE /\ state.err = [kind |-> "InsufficientFunds", player_id |-> cur,
                            amount_due |-> JAIL_FINE]
            /\ SameGame(Game(state), [pre EXCEPT !.players[cur].jail_turns = @ + 1])
            /\ state.players[cur].in_jail

\* a third failed attempt by a player who can pay: fined, out of jail and on
\* the space the dice lead to
C17_Witness ==
  /\ ThirdFailedAttempt
  /\ Ok(state)
  /\ ~state.players[cur].in_jail
  /\ state.players[cur].position = Landing
  /\ Cash(state, cur) <= Cash(pre, cur) - JAIL_FINE

\* pass_bid(p) was called on a running auction and left at most one active
\* bidder
LastPass ==
  /\ op = "pass_bid"
  /\ pre.turn_state.phase = AWAIT_AUCTION
  /\ PreAuction # NoAuction
  /\ Cardinality(PreAuction.active_bidders \ {args[1]}) <= 1

\* the leader can no longer pay the bid
LeaderShort ==
  /\ PreAuction.highest_bidder # None
  /\ Cash(pre, PreAuction.highest_bidder) < PreAuction.highest_bid

\* C18 (as specified): whenever a pass_bid call leaves at most one active
\* bidder the auction completes within that call: pending_auction is cleared
\* and the phase becomes TURN_OVER, whatever happened to the leader's cash
\* since the bid was placed.
C18_AuctionCompletes ==
  LastPass =>
    /\ state.turn_state.pending_auction = NoAuction
    /\ state.turn_state.phase = TURN_OVER

\* place_bid(p, a) was called on a running auction
BidPlaced ==
  /\ op = "place_bid"
  /\ pre.turn_state.phase = AWAIT_AUCTION
  /\ PreAuction # NoAuction

Bidder == args[1]
Bid == args[2]
NowAuction == state.turn_state.pending_auction

\* the bidder is active, can pay the bid, and the bid beats the highest bid
BidAcceptable ==
  /\ Bidder \in PreAuction.active_bidders
  /\ Cash(pre, Bidder) >= Bid
  /\ Bid > PreAuction.highest_bid

\* C19: place_bid(p, a) succeeds only if p is in the auction's active-bidder
\* set, p's cash is at least a and a is strictly greater than the highest
\* bid; on success highest_bid = a and highest_bidder = p and nothing else
\* of the auction, the cash or the ownership changes; a rejected bid changes
\* nothing. So highest_bid only increases while an auction runs, and
\* highest_bidder is set exactly when highest_bid > 0.
C19_PlaceBid ==
  /\ op = "place_bid" =>
       IF BidPlaced /\ BidAcceptable
       THEN /\ Ok(state)
            /\ NowAuction = [PreAuction EXCEPT !.highest_bid = Bid,
                                               !.highest_bidder = Bidder]
            /\ NowAuction.highest_bid > PreAuction.highest_bid
            /\ SameGame(state, [pre EXCEPT !.turn_state.pending_auction = NowAuction])
       ELSE ~Ok(state) /\ Unchanged
  /\ pre.turn_state.phase = AWAIT_AUCTION /\ state.turn_state.phase = AWAIT_AUCTION =>
       NowAuction.highest_bid >= PreAuction.highest_bid
  /\ state.turn_state.phase = AWAIT_AUCTION =>
       (NowAuction.highest_bidder # None <=> NowAuction.highest_bid > 0)

\* a bid of 100 over a bid of 20 placed in the same auction
C19_Witness ==
  /\ BidPlaced
  /\ Ok(state)
  /\ PreAuction.highest_bid = 20
  /\ NowAuction.highest_bid = 100
  /\ NowAuction.highest_bidder = Bidder

\* use_get_out_of_jail_card(deck) was called
CardPlayed == op = "use_get_out_of_jail_card"
Deck == args[1]
Hand(s) == s.players[cur].get_out_of_jail_cards
DeckOf(s, deck_name) == IF deck_name = "chance" THEN s.chance_deck ELSE s.community_deck

\* the positions in the hand of the cards tagged with the deck
Tagged(hand, deck_name) == {i \in DOMAIN hand : hand[i][1] = deck_name}

\* C20: use_get_out_of_jail_card(deck) succeeds exactly when the current
\* player holds a card tagged with that deck: it removes exactly one such
\* card (the first) from the hand, keeping the others in order, appends it to
\* the back of that same deck and leaves the other deck alone, clears in_jail
\* and the jail-turn counter, and sets the phase AWAIT_ROLL; with no matching
\* card it raises a rule violation and changes nothing.
C20_UseCard ==
  CardPlayed =>
    IF Tagged(Hand(pre), Deck) = {}
    THEN Raised("GameRuleError") /\ Unchanged
    ELSE LET idx == Min(Tagged(Hand(pre), Deck))
         IN /\ Ok(state)
            /\ Len(Hand(state)) = Len(Hand(pre)) - 1
            /\ Hand(state) = RemoveAt(Hand(pre), idx)
            /\ Cardinality(Tagged(Hand(state), Deck))
                 = Cardinality(Tagged(Hand(pre), Deck)) - 1
            /\ DeckOf(state, Deck) = Append(DeckOf(pre, Deck), Hand(pre)[idx][2])
            /\ \A other \in DeckNames \ {Deck} : DeckOf(state, other) = DeckOf(pre, other)
            /\ ~state.players[cur].in_jail
            /\ state.players[cur].jail_turns = 0
            /\ SameGame(state,
                        [pre EXCEPT !.players[cur].get_out_of_jail_cards = Hand(state),
                                    !.players[cur].in_jail = FALSE,
                                    !.players[cur].jail_turns = 0,
                                    !.chance_deck = state.chance_deck,
                                    !.community_deck = state.community_deck,
                                    !.turn_state.phase = AWAIT_ROLL])

\* the jailed holder of both cards plays the Chance card, the second in the
\* hand: it goes to the back of the Chance deck and the other card is kept
C20_Witness ==
  /\ CardPlayed
  /\ Ok(state)
  /\ Deck = "chance"
  /\ pre.players[cur].in_jail
  /\ pre.players[cur].jail_turns > 0
  /\ Hand(pre) = <<<<"community", 5>>, <<"chance", 8>>>>
  /\ Hand(state) = <<<<"community", 5>>>>
  /\ state.chance_deck[Len(state.chance_deck)] = 8

\* declare_bankruptcy(p, creditor) was called for a player not yet bankrupt
Bankruptcy == op = "declare_bankruptcy" /\ ~pre.players[args[1]].bankrupt
Debtor == args[1]
Creditor == args[2]
Estate == {q \in PropIds : Owner(pre, q) = Debtor}

\* the houses (on properties with 1 to 4) and the hotels the debtor had
EstateHouses == HousesInPlay(pre.properties, Estate)
EstateHotels == Cardinality({q \in Estate : pre.properties[q].houses = 5})

\* C21 (as specified): after declare_bankruptcy(p) with no creditor p is
\* marked bankrupt, every property p owned is unowned, unmortgaged and has
\* zero houses, p's houses and hotels are back in the supply pools, and p
\* holds 0 cash.
C21_BankruptToBank ==
  Bankruptcy /\ Creditor = None =>
    /\ Ok(state)
    /\ state.players[Debtor].bankrupt
    /\ \A q \in Estate : state.properties[q] = PropertyState(None, 0, FALSE)
    /\ state.houses_available = pre.houses_available + EstateHouses
    /\ state.hotels_available = pre.hotels_available + EstateHotels
    /\ Cash(state, Debtor) = 0

\* what the debtor's buildings fetch in liquidation
RECURSIVE Proceeds(_)
Proceeds(S) ==
  IF S = {} THEN 0
  ELSE LET q == Min(S)
           n == pre.properties[q].houses
       IN (IF n = 5 THEN HouseSaleValue(q, 5) ELSE HouseSaleValue(q, 1) * n)
            + Proceeds(S \ {q})

\* the mortgage-transfer interest of the mortgaged properties of S
RECURSIVE TransferInterest(_)
TransferInterest(S) ==
  IF S = {} THEN 0
  ELSE LET q == Min(S)
       IN (IF pre.properties[q].mortgaged THEN MortgageInterest(q) ELSE 0)
            + TransferInterest(S \ {q})

\* the creditor received the whole estate
EstateTransferred ==
  /\ Ok(state)
  /\ state.players[Debtor].bankrupt
  /\ Cash(state, Debtor) = 0
  /\ \A q \in PropIds : Owner(state, q) # Debtor
  /\ \A q \in Estate :
       state.properties[q] = PropertyState(Creditor, 0, pre.properties[q].mortgaged)
  /\ Cash(state, Creditor)
       = Cash(pre, Creditor) + Cash(pre, Debtor) + Proceeds(Estate)
           - TransferInterest(Estate)

\* C22 (as specified): declare_bankruptcy(p, c) with a creditor is one atomic
\* transition: either the creditor receives the whole estate and p's
\* post-liquidation cash less the transfer interest of the mortgaged
\* properties, or the call fails and nothing has changed.
C22_BankruptToCreditor ==
  Bankruptcy /\ Creditor # None => EstateTransferred \/ (~Ok(state) /\ Unchanged)

\* the spread of the house counts over the colour group `color`
GroupCounts(s, color) == {s.properties[q].houses : q \in Range(PROPERTY_GROUPS[color])}
Spread(s, color) == Max(GroupCounts(s, color)) - Min(GroupCounts(s, color))

\* C23 (as specified): in every reachable state the largest and the smallest
\* house count of every colour group differ by at most 1.
C23_EvenGroups == \A color \in Colors : Spread(state, color) <= 1

\* C24 (as specified): buildings are conserved in every reachable state:
\* houses_available plus the houses standing on properties with 1 to 4 houses
\* is MAX_HOUSES, and hotels_available plus the number of properties carrying
\* a hotel is MAX_HOTELS.
C24_BuildingsConserved ==
  /\ state.houses_available + HousesInPlay(state.properties, PropIds) = MAX_HOUSES
  /\ state.hotels_available + HotelsInPlay(state.properties) = MAX_HOTELS

\* sell_house(seller, lot) was called
SellCalled == op = "sell_house"
Seller == args[1]
Lot == args[2]
HalfCost(q) == Or0(PROPERTY_DATA[q].house_cost) \div HOUSE_SELL_VALUE_DEN

\* the lot has nothing to sell, or fewer buildings than a sibling
NotSellable ==
  \/ pre.properties[Lot].houses = 0
  \/ pre.properties[Lot].houses < Max(GroupCounts(pre, PROPERTY_DATA[Lot].color))

\* C25 (as specified): a successful sell_house lowers the property's count by
\* exactly one level and credits the owner exactly half of the property's
\* house cost, truncated, for a house and for a hotel alike; it is rejected
\* with no change when the property has no houses or fewer than the group
\* maximum.
C25_SellHouse ==
  SellCalled =>
    /\ Ok(state) =>
         /\ Owner(pre, Lot) = Seller
         /\ state.properties[Lot].houses = pre.properties[Lot].houses - 1
         /\ Cash(state, Seller) = Cash(pre, Seller) + HalfCost(Lot)
    /\ NotSellable => ~Ok(state) /\ Unchanged

\* a dice call: the current player rolls and may move
DiceCall == op \in {"roll_dice", "attempt_jail_roll"}

\* where the call left the mover, and the ownable space there if any
Arrival == state.players[cur].position
ArrivalProperty == BOARD[Arrival + 1].property_id

\* the mover was taken to another player's mortgaged property
OnMortgagedSpace ==
  /\ DiceCall
  /\ Arrival # Start
  /\ ArrivalProperty # None
  /\ Owner(pre, ArrivalProperty) \notin {None, cur}
  /\ pre.properties[ArrivalProperty].mortgaged

\* C26 (as specified): no cash is transferred as rent for a mortgaged
\* property, whether the player arrives by dice or through a
\* move-to-nearest-railroad or move-to-nearest-utility card: the call
\* succeeds, the owner's cash is what it was and the mover's cash differs at
\* most by the GO salary.
C26_NoRentOnMortgaged ==
  OnMortgagedSpace =>
    /\ Ok(state)
    /\ Cash(state, Owner(pre, ArrivalProperty)) = Cash(pre, Owner(pre, ArrivalProperty))
    /\ Cash(state, cur) - Cash(pre, cur) \in {0, GO_SALARY}

\* attempt_jail_roll moved the player: doubles, or a third failed attempt
\* with the fine in hand
JailMove == JailDoubles \/ (ThirdFailedAttempt /\ Cash(pre, cur) >= JAIL_FINE)
FinePaid == IF JailMove /\ ~JailDoubles THEN JAIL_FINE ELSE 0

\* the dice took the mover to another player's unmortgaged utility
OnRentedUtility ==
  /\ DiceMove \/ JailMove
  /\ LandedProperty # None
  /\ PROPERTY_DATA[LandedProperty].type = "utility"
  /\ Landlord \notin {None, cur}
  /\ ~pre.properties[LandedProperty].mortgaged

\* the dice sum times 10 if the owner holds both utilities, times 4 otherwise
UtilityRent ==
  DiceSum * (IF \A u \in Range(UTILITIES) : Owner(pre, u) = Landlord THEN 10 ELSE 4)

\* C27 (as specified): the rent for landing on another player's unmortgaged
\* utility is the sum of the two dice just rolled times 10 if the owner holds
\* both utilities and times 4 otherwise, for moves made by roll_dice and by
\* attempt_jail_roll alike: a mover who can pay is charged exactly that and
\* the owner credited, a mover who cannot is refused for that amount.
C27_UtilityRent ==
  OnRentedUtility =>
    LET funds == Cash(pre, cur) + Salary - FinePaid
    IN IF funds >= UtilityRent
       THEN /\ Ok(state)
            /\ Cash(state, cur) = funds - UtilityRent
            /\ Cash(state, Landlord) = Cash(pre, Landlord) + UtilityRent
       ELSE /\ Raised("InsufficientFunds")
            /\ state.err.amount_due = UtilityRent

\* build_house(builder, site) was called
BuildCalled == op = "build_house"

\* the conditions under which a build is allowed
Buildable ==
  /\ Owner(pre, Site) = Builder
  /\ PROPERTY_DATA[Site].type = "property"
  /\ \A g \in SiteGroup : Owner(pre, g) = Builder /\ ~pre.properties[g].mortgaged
  /\ pre.properties[Site].houses < 5
  /\ pre.properties[Site].houses <= Min(GroupCounts(pre, PROPERTY_DATA[Site].color))
  /\ IF pre.properties[Site].houses = 4
     THEN pre.hotels_available >= 1 ELSE pre.houses_available >= 1
  /\ Cash(pre, Builder) >= PROPERTY_DATA[Site].house_cost

\* some member of the property's colour group carries houses
GroupBuilt(s, q) ==
  /\ PROPERTY_DATA[q].type = "property"
  /\ \E g \in Range(PROPERTY_GROUPS[PROPERTY_DATA[q].color]) : s.properties[g].houses > 0

\* a colour group with a mortgaged member and a member with houses
MixedGroup(s) ==
  \E color \in Colors :
    /\ \E g \in Range(PROPERTY_GROUPS[color]) : s.properties[g].mortgaged
    /\ \E g \in Range(PROPERTY_GROUPS[color]) : s.properties[g].houses > 0

\* C28: build_house is rejected with no state change unless the player owns
\* every property of the colour group, no member is mortgaged, the property
\* has fewer than 5 houses and no more than the group minimum, the needed
\* pool is non-empty and the player can pay the house cost; mortgage_property
\* is rejected when a member of the property's group carries houses; so no
\* colour group ever holds both a mortgaged property and one with houses.
C28_BuildAndMortgageGuards ==
  /\ BuildCalled /\ ~Buildable => ~Ok(state) /\ Unchanged
  /\ op = "mortgage_property" /\ GroupBuilt(pre, args[2]) => ~Ok(state) /\ Unchanged
  /\ ~MixedGroup(state)

\* a build refused for a mortgaged sibling, the builder owning the whole
\* group and holding the cost
C28_Witness ==
  /\ BuildCalled
  /\ ~Ok(state)
  /\ Unchanged
  /\ PROPERTY_DATA[Site].type = "property"
  /\ \A g \in SiteGroup : Owner(pre, g) = Builder
  /\ \E g \in SiteGroup : pre.properties[g].mortgaged
  /\ Cash(pre, Builder) >= PROPERTY_DATA[Site].house_cost

\* the calls that can give a property to a player
Conveyances == {"buy_property", "pass_bid", "accept_trade_offer", "declare_bankruptcy"}

\* C29: in every reachable state a property with no owner has zero houses
\* and is not mortgaged; a property passes to a player only in buy_property,
\* in the pass_bid that resolves an auction, in accept_trade_offer or in
\* declare_bankruptcy, and an unowned property only in the first two.
C29_UnownedIsClear ==
  /\ \A q \in PropIds :
       Owner(state, q) = None => state.properties[q] = PropertyState(None, 0, FALSE)
  /\ \A q \in PropIds :
       /\ Owner(state, q) # Owner(pre, q) /\ Owner(state, q) # None => op \in Conveyances
       /\ Owner(pre, q) = None /\ Owner(state, q) # None => op \in {"buy_property", "pass_bid"}

\* a bankruptcy returned a mortgaged property and a built one to the bank
C29_Witness ==
  /\ Bankruptcy
  /\ Creditor = None
  /\ \E q \in Estate : pre.properties[q].mortgaged /\ Owner(state, q) = None
  /\ \E q \in Estate : pre.properties[q].houses > 0 /\ Owner(state, q) = None
  /\ \A q \in Estate : state.properties[q] = PropertyState(None, 0, FALSE)

\* an offer without its status
Terms(o) == [o EXCEPT !.status = "open"]

\* the status changes the offer table allows
StatusMoves == {<<"open", "accepted">>, <<"open", "cancelled">>}

\* C30 (as specified): offers are never removed from the offer table, their
\* ids are unique and increase in creation order, an offer's proposer,
\* addressee and bundles never change, and its status moves only from open
\* to accepted or from open to cancelled.
C30_OffersKept ==
  /\ Len(state.trade_offers) >= Len(pre.trade_offers)
  /\ \A i \in DOMAIN state.trade_offers : state.trade_offers[i].offer_id = i
  /\ state.next_offer_id = Len(state.trade_offers) + 1
  /\ \A i \in DOMAIN pre.trade_offers :
       /\ Terms(state.trade_offers[i]) = Terms(pre.trade_offers[i])
       /\ \/ state.trade_offers[i].status = pre.trade_offers[i].status
          \/ <<pre.trade_offers[i].status, state.trade_offers[i].status>> \in StatusMoves

----------------------------------------------------------------------------
(* The card decks.                                                         *)

\* the ids of the sixteen cards of a deck, and of its Get Out of Jail Free card
CardIds == 1 .. 16
KeepCard(deck_name) ==
  CHOOSE id \in CardIds : Card(deck_name, id).action = "get_out_of_jail"

\* the cards of `deck_name` in the players' hands, one entry per copy held
HeldBy(s, p, deck_name) ==
  SelectSeq(s.players[p].get_out_of_jail_cards, LAMBDA c : c[1] = deck_name)
RECURSIVE HeldCopies(_, _, _)
HeldCopies(s, deck_name, S) ==
  IF S = {} THEN 0
  ELSE LET p == Min(S)
       IN Len(HeldBy(s, p, deck_name)) + HeldCopies(s, deck_name, S \ {p})

\* every card in a hand is the Get Out of Jail Free card of the deck it is
\* tagged with
HandsTagged(s) ==
  \A p \in Players : \A c \in Range(s.players[p].get_out_of_jail_cards) :
    c[1] \in DeckNames /\ c[2] = KeepCard(c[1])

\* a deck holds each of its sixteen cards once, except its Get Out of Jail
\* Free card while one player holds it
DeckComplete(s, deck_name) ==
  LET deck == DeckOf(s, deck_name)
      held == HeldCopies(s, deck_name, Players)
  IN /\ held <= 1
     /\ Range(deck) = IF held = 1 THEN CardIds \ {KeepCard(deck_name)} ELSE CardIds
     /\ Len(deck) = Cardinality(Range(deck))

\* the deck left by k draws from the front: the cards drawn go to the back in
\* the order drawn, the Get Out of Jail Free card excepted
Recycled(deck, deck_name, k) ==
  SubSeq(deck, k + 1, Len(deck))
    \o SelectSeq(SubSeq(deck, 1, k), LAMBDA id : id # KeepCard(deck_name))

\* the last call drew k cards from the front of the deck: they are recycled,
\* the Get Out of Jail Free card among them is added to the drawer's hand, and
\* nobody else's hand changes
DrewFrom(deck_name, k) ==
  LET before == DeckOf(pre, deck_name)
      kept == KeepCard(deck_name) \in Range(SubSeq(before, 1, k))
  IN /\ k <= Len(before)
     /\ DeckOf(state, deck_name) = Recycled(before, deck_name, k)
     /\ HeldBy(state, cur, deck_name)
          = IF kept THEN Append(HeldBy(pre, cur, deck_name),
                                <<deck_name, KeepCard(deck_name)>>)
            ELSE HeldBy(pre, cur, deck_name)
     /\ \A p \in Players \ {cur} :
          state.players[p].get_out_of_jail_cards = pre.players[p].get_out_of_jail_cards

\* C31: in every reachable state the hands hold only Get Out of Jail Free
\* cards tagged with their deck and each deck holds its sixteen cards once,
\* less that card while it is held; no call draws from an empty deck; a call
\* that moves a player by the dice leaves each deck as some number of draws
\* from its front leave it, the cards drawn recycled to the back in order and
\* the Get Out of Jail Free card kept out; a successful
\* use_get_out_of_jail_card puts the card used at the back of its deck and
\* leaves the other deck alone; every other call leaves both decks alone.
C31_DecksRecycle ==
  /\ HandsTagged(state)
  /\ \A deck_name \in DeckNames : DeckComplete(state, deck_name)
  /\ ~Raised("IndexError")
  /\ op \in {"roll_dice", "attempt_jail_roll"}
       => \A deck_name \in DeckNames :
            \E k \in 0 .. 1 : DrewFrom(deck_name, k)
  /\ CardPlayed /\ Ok(state)
       => /\ DeckOf(state, Deck) = Append(DeckOf(pre, Deck), KeepCard(Deck))
          /\ \A other \in DeckNames \ {Deck} : DeckOf(state, other) = DeckOf(pre, other)
  /\ op \notin {"roll_dice", "attempt_jail_roll", "use_get_out_of_jail_card"}
       => \A deck_name \in DeckNames : DeckOf(state, deck_name) = DeckOf(pre, deck_name)

\* player 0 draws the Get Out of Jail Free card from the top of the Chance
\* deck, which then holds fifteen cards, and plays it: the card is at the back
\* of the sixteen
C31_Witness ==
  /\ Len(history) >= 2
  /\ Recent(2, 1).op = "roll_dice"
  /\ Head(Recent(2, 1).pre.chance_deck) = KeepCard("chance")
  /\ Len(pre.chance_deck) = 15
  /\ Hand(pre) = <<<<"chance", KeepCard("chance")>>>>
  /\ CardPlayed /\ Ok(state) /\ Deck = "chance"
  /\ Len(state.chance_deck) = 16
  /\ state.chance_deck[16] = KeepCard("chance")
  /\ Hand(state) = <<>>

----------------------------------------------------------------------------
(* The jail card and the phase.                                            *)

\* the player whose turn it is sits in jail and is asked for a jail action
JailActionDue == pre.players[cur].in_jail /\ pre.turn_state.phase = AWAIT_JAIL_ACTION

\* the last three calls: a roll that was not doubles and ended the player's
\* move, the jail card, and a second roll by the same player in the same turn
RolledAgainOnCard ==
  /\ Len(history) >= 3
  /\ Rolled(Recent(3, 1))
  /\ ~RolledDoubles(Recent(3, 1))
  /\ Recent(3, 2).op = "use_get_out_of_jail_card"
  /\ Recent(3, 2).pre.turn_state.phase # AWAIT_ROLL
  /\ Recent(3, 2).pre.turn_state.doubles_count = 0
  /\ Recent(3, 2).pre.current_player_index = Recent(3, 1).pre.current_player_index
  /\ op = "roll_dice"
  /\ cur = Recent(3, 1).pre.current_player_index
  /\ Ok(state)
  /\ state.players[cur].position # pre.players[cur].position

\* C32: use_get_out_of_jail_card called when the current player is not a
\* jailed player in phase AWAIT_JAIL_ACTION raises a rule violation and
\* changes nothing, and no player who has rolled without doubles rolls and
\* moves again in the same turn on the strength of the card.
C32_CardOnlyInJail ==
  /\ CardPlayed /\ ~JailActionDue => Raised("GameRuleError") /\ Unchanged
  /\ ~RolledAgainOnCard

----------------------------------------------------------------------------
(* The winner of an auction.                                               *)

\* the bidders still active once the caller of pass_bid has been removed
Remaining == PreAuction.active_bidders \ {args[1]}

\* the player who holds the auctioned property after the auction resolved
Winner == Owner(state, PreAuction.property_id)

\* C33: when a pass_bid call resolves the auction and a player receives the
\* property, that player is the only bidder left in the active set (so has
\* not passed) and is not bankrupt; when no player is left in the active set
\* nobody receives it.
C33_WinnerStillBidding ==
  AuctionResolved /\ Ok(state) /\ Winner # None =>
    /\ Remaining = {Winner}
    /\ ~state.players[Winner].bankrupt

----------------------------------------------------------------------------
(* Consistency of the turn state.                                          *)

PendingAuction(s) == s.turn_state.pending_auction
PendingPropertyId(s) == s.turn_state.pending_property_id

\* phase and pending fields of a GameState agree
TurnStateConsistent(s) ==
  /\ s.turn_state.phase = AWAIT_AUCTION <=> PendingAuction(s) # NoAuction
  /\ s.turn_state.phase = AWAIT_BUY_DECISION <=> PendingPropertyId(s) # None
  /\ PendingPropertyId(s) # None => Owner(s, PendingPropertyId(s)) = None
  /\ PendingAuction(s) # NoAuction => Owner(s, PendingAuction(s).property_id) = None
  /\ s.turn_state.phase \in {AWAIT_ROLL, AWAIT_JAIL_ACTION, TURN_OVER}
       => PendingAuction(s) = NoAuction /\ PendingPropertyId(s) = None

\* C34: in every reachable state the phase is AWAIT_AUCTION exactly when
\* there is a pending auction and AWAIT_BUY_DECISION exactly when there is a
\* pending property, the pending property and the auctioned property are
\* unowned, and in AWAIT_ROLL, AWAIT_JAIL_ACTION and TURN_OVER both pending
\* fields are empty.
C34_TurnStateConsistent == TurnStateConsistent(state)

----------------------------------------------------------------------------
(* Buildings and the ownership of colour groups.                           *)

\* the colour group of a street, as a set of property ids
GroupOf(q) == Range(PROPERTY_GROUPS[PROPERTY_DATA[q].color])

\* one player who is not bankrupt owns every property of the group of q
WholeGroupOwned(s, q) ==
  \E p \in Players :
    /\ ~s.players[p].bankrupt
    /\ \A g \in GroupOf(q) : Owner(s, g) = p

\* C35: in every reachable state a property that carries houses (or a hotel)
\* is a street whose whole colour group is owned by one player who is not
\* bankrupt.
C35_BuiltGroupsWhole ==
  \A q \in PropIds :
    state.properties[q].houses > 0 =>
      PROPERTY_DATA[q].type = "property" /\ WholeGroupOwned(state, q)

====
